---- MODULE Spec2Model ----
(***************************************************************************)
(* The health checkup analyzer of healthcheckapp.py: the report formatter, *)
(* the analysis request, the text extraction and the run of main; and the  *)
(* test of the interpreter's version in setup.py.                          *)
(*                                                                         *)
(* A Python str is a sequence of characters, each a one-character string.  *)
(* The two non-ASCII characters the code names are written "U+2022" (the   *)
(* bullet) and "U+2013" (the en dash).  The literal pieces of markup the   *)
(* code's f-strings insert are one element each ("<li>", "</span>", ...);  *)
(* what an f-string interpolates stays a run of characters.  A piece of    *)
(* markup begins with "<" or a quote and ends with ">" or a blank, so for  *)
(* the regular expressions it is a non-word, non-digit, non-blank element. *)
(***************************************************************************)
EXTENDS Integers, Sequences, FiniteSets, TLC

VARIABLES pc, analysis_text, formatted, content_lines, html_content, text, highlighted,
          session_state, calls,
          clicks, prompt, posts, in_flight, response, analysis_result, errors,
          reruns, uploaded_file, extracted_text, download, preview,
          api_key_input, version, returned

vars == <<pc, analysis_text, formatted, content_lines, html_content, text, highlighted,
          session_state, calls, clicks, prompt, posts, in_flight, response,
          analysis_result, errors, reruns, uploaded_file, extracted_text, download, preview,
          api_key_input, version, returned>>

\* analyze_health_report: the analyse actions so far, the prompt built, the
\* requests posted, the requests awaiting their response, what requests.post
\* gave (a response or an exception), the value returned
\* and the messages shown with st.error; a value v is held as <<v>>, None as <<>>
analysis_vars == <<clicks, prompt, posts, in_flight, response, analysis_result, errors>>

\* main and extract_text_from_pdf: the runs of the script so far, the file
\* uploaded (its pages, as pdfplumber reads them), the text extracted from
\* it, the document offered for download and the preview shown in this run
main_vars == <<reruns, uploaded_file, extracted_text, download, preview>>

\* setup.py, check_python_version: sys.version_info as the tuple (major,
\* minor, micro), and the value returned, held as <<v>>; both <<>> when the
\* setup script is not what runs
setup_vars == <<version, returned>>

\* no file is uploaded (None); a file f is held as <<f>>
NoFile == <<>>

\* the state of the application around the formatter: st.session_state, the
\* calls of the formatter made so far, the analysis, the run of main, what
\* the credential field of the sidebar returned in this run, and the setup
app_vars == <<session_state, calls, analysis_vars, main_vars, api_key_input, setup_vars>>

\* after construction (setup_openai): the credential is the empty string, no
\* preview was asked for, nothing was formatted or analysed
AppIdle ==
    /\ session_state = [openai_api_key |-> <<>>, show_preview |-> FALSE]
    /\ calls = <<>>
    /\ clicks = 0
    /\ prompt = <<>>
    /\ posts = <<>>
    /\ in_flight = 0
    /\ response = <<>>
    /\ analysis_result = <<>>
    /\ errors = <<>>
    /\ reruns = 0
    /\ uploaded_file = NoFile
    /\ extracted_text = <<>>
    /\ download = <<>>
    /\ preview = <<>>
    /\ api_key_input = <<>>
    /\ version = <<>>
    /\ returned = <<>>

(***************************************************************************)
(* Characters and the str methods the formatter calls.                     *)
(***************************************************************************)
Digits == {"0","1","2","3","4","5","6","7","8","9"}

LowerSeq == <<"a","b","c","d","e","f","g","h","i","j","k","l","m","n","o","p","q","r","s","t","u","v","w","x","y","z">>

UpperSeq == <<"A","B","C","D","E","F","G","H","I","J","K","L","M","N","O","P","Q","R","S","T","U","V","W","X","Y","Z">>

Lowercase == {LowerSeq[i] : i \in DOMAIN LowerSeq}

Uppercase == {UpperSeq[i] : i \in DOMAIN UpperSeq}

\* \w of the re module
WordChars == Digits \cup Lowercase \cup Uppercase \cup {"_"}

\* \s of the re module, and what str.strip() removes
Whitespace == {" ", "\t", "\n"}

UpperOf == [c \in Lowercase |-> UpperSeq[CHOOSE i \in DOMAIN LowerSeq : LowerSeq[i] = c]]

LowerOf == [c \in Uppercase |-> LowerSeq[CHOOSE i \in DOMAIN UpperSeq : UpperSeq[i] = c]]

\* TRUE of every value: a loop tests it on its state, so that TLC evaluates
\* the state one turn left before the next turn starts
Evaluated(v) == v = v

\* Python's None; the code only ever tests these values for truth, and an
\* empty str or list is as false as None
None == <<>>

\* str.upper()
upper(s) == [i \in DOMAIN s |-> IF s[i] \in Lowercase THEN UpperOf[s[i]] ELSE s[i]]

\* str.lower()
lower(s) == [i \in DOMAIN s |-> IF s[i] \in Uppercase THEN LowerOf[s[i]] ELSE s[i]]

\* str.title(): a cased character is upper-cased after an uncased one (or
\* at the start) and lower-cased after a cased one
title(s) ==
    [i \in DOMAIN s |->
        IF i > 1 /\ s[i-1] \in (Lowercase \cup Uppercase)
        THEN (IF s[i] \in Uppercase THEN LowerOf[s[i]] ELSE s[i])
        ELSE (IF s[i] \in Lowercase THEN UpperOf[s[i]] ELSE s[i])]

\* str.isupper(): at least one cased character and none of them lower-case
isupper(s) ==
    /\ \E i \in DOMAIN s : s[i] \in Uppercase
    /\ \A i \in DOMAIN s : s[i] \notin Lowercase

\* str.lstrip(): from the first character that is no blank
lstrip(s) ==
    LET kept == {i \in DOMAIN s : s[i] \notin Whitespace}
    IN  IF kept = {} THEN <<>>
        ELSE SubSeq(s, CHOOSE i \in kept : \A k \in kept : i <= k, Len(s))

\* str.rstrip(): up to the last character that is no blank
rstrip(s) ==
    LET kept == {i \in DOMAIN s : s[i] \notin Whitespace}
    IN  IF kept = {} THEN <<>>
        ELSE SubSeq(s, 1, CHOOSE i \in kept : \A k \in kept : i >= k)

\* str.strip()
strip(s) == rstrip(lstrip(s))

\* s[i:].startswith(p), i counted from 1
StartsWithAt(s, i, p) ==
    /\ i + Len(p) - 1 <= Len(s)
    /\ \A k \in DOMAIN p : s[i + k - 1] = p[k]

\* str.startswith
startswith(s, p) == StartsWithAt(s, 1, p)

\* str.endswith
endswith(s, p) == Len(p) <= Len(s) /\ StartsWithAt(s, Len(s) - Len(p) + 1, p)

\* the `in` operator on two strs
Contains(p, s) == \E i \in 1..(Len(s) + 1) : StartsWithAt(s, i, p)

\* str.find, counted from 1; 0 when absent
Find(s, p) ==
    IF Contains(p, s)
    THEN CHOOSE i \in 1..(Len(s) + 1) :
            StartsWithAt(s, i, p) /\ \A j \in 1..(i - 1) : ~StartsWithAt(s, j, p)
    ELSE 0

\* str.split(sep)
RECURSIVE split(_, _)
split(s, sep) ==
    LET i == Find(s, sep)
    IN  IF i = 0 THEN <<s>>
        ELSE <<SubSeq(s, 1, i - 1)>> \o split(SubSeq(s, i + Len(sep), Len(s)), sep)

\* str.split() with no argument: the runs of non-blank characters
RECURSIVE split_words(_)
split_words(s) ==
    LET t == lstrip(s)
        n == IF \E i \in DOMAIN t : t[i] \in Whitespace
             THEN (CHOOSE i \in DOMAIN t :
                      t[i] \in Whitespace /\ \A j \in 1..(i - 1) : t[j] \notin Whitespace) - 1
             ELSE Len(t)
    IN  IF t = <<>> THEN <<>>
        ELSE <<SubSeq(t, 1, n)>> \o split_words(SubSeq(t, n + 1, Len(t)))

\* ''.join(list)
RECURSIVE join(_)
join(parts) == IF parts = <<>> THEN <<>> ELSE Head(parts) \o join(Tail(parts))

\* sep.join(list)
RECURSIVE join_with(_, _)
join_with(sep, parts) ==
    IF parts = <<>> THEN <<>>
    ELSE IF Len(parts) = 1 THEN Head(parts)
    ELSE Head(parts) \o sep \o join_with(sep, Tail(parts))

(***************************************************************************)
(* _highlight_medical_values: three regular-expression passes.             *)
(***************************************************************************)
\* \b between s[i-1] and s[i]
WordBoundary(s, i) ==
    LET before == i > 1 /\ i - 1 <= Len(s) /\ s[i-1] \in WordChars
        after  == i >= 1 /\ i <= Len(s) /\ s[i] \in WordChars
    IN  before # after

\* the index after the run of characters of `set` that starts at i
SkipWhile(s, i, set) ==
    LET stop == {j \in i..Len(s) : s[j] \notin set}
    IN  IF stop = {} THEN (IF i > Len(s) THEN i ELSE Len(s) + 1)
        ELSE CHOOSE j \in stop : \A k \in stop : j <= k

\* \d+(?:\.\d+)? at i: the index after the match, 0 for no match
NumberEnd(s, i) ==
    IF i > Len(s) \/ s[i] \notin Digits THEN 0
    ELSE LET j == SkipWhile(s, i, Digits)
         IN  IF j + 1 <= Len(s) /\ s[j] = "." /\ s[j+1] \in Digits
             THEN SkipWhile(s, j + 1, Digits)
             ELSE j

\* (?:\s*[-U+2013]\s*\d+(?:\.\d+)?)? at j: the index after it (j when it is skipped)
RangeEnd(s, j) ==
    LET k == SkipWhile(s, j, Whitespace)
    IN  IF k <= Len(s) /\ s[k] \in {"-", "U+2013"}
        THEN LET e == NumberEnd(s, SkipWhile(s, k + 1, Whitespace))
             IN  IF e = 0 THEN j ELSE e
        ELSE j

\* the alternatives of the unit group, in the order the pattern tries them
\* (units? is units, then unit)
medical_units ==
    << <<"m","g">>, <<"g">>, <<"k","g">>, <<"l","b">>, <<"c","m">>, <<"m","m">>, <<"%">>, <<"b","p","m">>, <<"m","m","H","g">>,
       <<"m","g","/","d","L">>, <<"g","/","d","L">>, <<"m","L">>, <<"L">>, <<"u","n","i","t","s">>, <<"u","n","i","t">>, <<"I","U">> >>

\* one alternative of the unit group at u: the unit, then \b
UnitMatchesAt(s, u, unit) ==
    StartsWithAt(s, u, unit) /\ WordBoundary(s, u + Len(unit))

\* (?:\s*(?:mg|g|...|IU)\b)? at j: the index after it (j when it is skipped)
UnitEnd(s, j) ==
    LET u == SkipWhile(s, j, Whitespace)
        ok == {n \in DOMAIN medical_units : UnitMatchesAt(s, u, medical_units[n])}
    IN  IF ok = {} THEN j
        ELSE LET first == CHOOSE n \in ok : \A m \in ok : n <= m
             IN  u + Len(medical_units[first])

\* the whole value pattern at i: the index after the match, 0 for no match
ValueEnd(s, i) ==
    LET j == NumberEnd(s, i)
    IN  IF j = 0 THEN 0 ELSE UnitEnd(s, RangeEnd(s, j))

ValueOpen == "<span class=\"medical-value\">"

SpanClose == "</span>"

\* re.sub(value pattern, r'<span class="medical-value">\1</span>', text)
\* the least index of the set `at`, 0 when it is empty: where the leftmost
\* match of a pattern starts, `at` being the indexes at which it matches
Leftmost(at) == IF at = {} THEN 0 ELSE CHOOSE j \in at : \A k \in at : j <= k

\* re.sub(value pattern, r'<span class="medical-value">\1</span>', text),
\* the scan resuming at i
RECURSIVE highlight_values(_, _)
highlight_values(s, i) ==
    LET m == Leftmost({j \in i..Len(s) : ValueEnd(s, j) > 0})
    IN  IF m = 0 THEN SubSeq(s, i, Len(s))
        ELSE LET e == ValueEnd(s, m)
             IN  SubSeq(s, i, m - 1)
                 \o <<ValueOpen>> \o SubSeq(s, m, e - 1) \o <<SpanClose>>
                 \o highlight_values(s, e)

important_terms ==
    << <<"H","I","G","H">>, <<"L","O","W">>, <<"N","O","R","M","A","L">>, <<"A","B","N","O","R","M","A","L">>, <<"C","R","I","T","I","C","A","L">>, <<"U","R","G","E","N","T">>,
       <<"I","M","M","E","D","I","A","T","E">>, <<"E","L","E","V","A","T","E","D">>, <<"D","E","C","R","E","A","S","E","D">>, <<"B","O","R","D","E","R","L","I","N","E">>, <<"O","P","T","I","M","A","L">>,
       <<"G","O","O","D">>, <<"P","O","O","R">>, <<"R","E","C","O","M","M","E","N","D","E","D">>, <<"A","V","O","I","D">>, <<"I","N","C","R","E","A","S","E">>, <<"D","E","C","R","E","A","S","E">>,
       <<"M","A","I","N","T","A","I","N">>, <<"M","O","N","I","T","O","R">> >>

TermOpen == "<span class=\"medical-term "

TagEnd == "\">"

\* \bTERM\b at i under re.IGNORECASE
TermMatchesAt(s, i, term) ==
    /\ i + Len(term) - 1 <= Len(s)
    /\ \A k \in DOMAIN term :
          (IF s[i + k - 1] \in Lowercase THEN UpperOf[s[i + k - 1]] ELSE s[i + k - 1])
              = term[k]
    /\ WordBoundary(s, i)
    /\ WordBoundary(s, i + Len(term))

\* f'<span class="medical-term {term.lower()}">{term}</span>'
TermSpan(term) == <<TermOpen>> \o lower(term) \o <<TagEnd>> \o term \o <<SpanClose>>

\* re.sub(f'\\b{term}\\b', ..., text, flags=re.IGNORECASE) for one term
RECURSIVE highlight_term(_, _, _)
highlight_term(s, i, term) ==
    LET m == Leftmost({j \in i..Len(s) : TermMatchesAt(s, j, term)})
    IN  IF m = 0 THEN SubSeq(s, i, Len(s))
        ELSE SubSeq(s, i, m - 1) \o TermSpan(term)
             \o highlight_term(s, m + Len(term), term)

\* for term in important_terms: text = re.sub(...)
RECURSIVE highlight_terms(_, _)
highlight_terms(s, n) ==
    IF n > Len(important_terms) \/ ~Evaluated(s) THEN s
    ELSE highlight_terms(highlight_term(s, 1, important_terms[n]), n + 1)

StrongOpen == "<strong>"

StrongClose == "</strong>"

\* the first index j >= i with "**" at j, 0 when there is none
StarsFrom(s, i) ==
    Leftmost({j \in i..Len(s) : StartsWithAt(s, j, <<"*","*">>)})

\* re.sub(r'\*\*(.*?)\*\*', r'<strong>\1</strong>', text); the dot matches no
\* line break
RECURSIVE bold_phrases(_, _)
bold_phrases(s, i) ==
    LET Closing(j) == IF StartsWithAt(s, j, <<"*","*">>) THEN StarsFrom(s, j + 2) ELSE 0
        BoldAt(j) == /\ Closing(j) # 0
                     /\ \A k \in (j + 2)..(Closing(j) - 1) : s[k] # "\n"
        m == Leftmost({j \in i..Len(s) : BoldAt(j)})
    IN  IF m = 0 THEN SubSeq(s, i, Len(s))
        ELSE SubSeq(s, i, m - 1)
             \o <<StrongOpen>> \o SubSeq(s, m + 2, Closing(m) - 1) \o <<StrongClose>>
             \o bold_phrases(s, Closing(m) + 2)

_highlight_medical_values(s) ==
    bold_phrases(highlight_terms(highlight_values(s, 1), 1), 1)

(***************************************************************************)
(* _format_content_to_html: bullet lists, sub-headings and paragraphs.     *)
(***************************************************************************)
ListOpen == "<ul class='medical-list'>"

ListClose == "</ul>"

ItemOpen == "<li>"

ItemClose == "</li>"

SubHeadingOpen == "<h4 class='sub-heading'>"

SubHeadingClose == "</h4>"

ParagraphOpen == "<p>"

ParagraphClose == "</p>"

\* line.startswith('-') or line.startswith('U+2022') or line.startswith('*')
IsBulletLine(line) ==
    startswith(line, <<"-">>) \/ startswith(line, <<"U+2022">>) \/ startswith(line, <<"*">>)

\* line.isupper() or line.endswith(':')
IsSubHeading(line) == isupper(line) \/ endswith(line, <<":">>)

\* f"<li>{clean_line}</li>" with clean_line = line[1:].strip(), highlighted
ListItem(line) ==
    <<ItemOpen>> \o _highlight_medical_values(strip(Tail(line))) \o <<ItemClose>>

\* f"<ul class='medical-list'>{''.join(current_list)}</ul>"
ListHtml(current_list) == <<ListOpen>> \o join(current_list) \o <<ListClose>>

\* the sub-heading or the paragraph of a line that is no bullet
BlockHtml(line) ==
    IF IsSubHeading(line)
    THEN <<SubHeadingOpen>> \o _highlight_medical_values(line) \o <<SubHeadingClose>>
    ELSE <<ParagraphOpen>> \o _highlight_medical_values(line) \o <<ParagraphClose>>

\* ContentStep that never empties current_list
ContentStep_NoReset(c, raw) ==
    LET line == strip(raw)
    IN  IF line = <<>> THEN c
        ELSE IF IsBulletLine(line)
        THEN [html_content |-> c.html_content,
              current_list |-> Append(c.current_list, ListItem(line)),
              in_list      |-> TRUE]
        ELSE [html_content |->
                  Append(IF c.in_list
                         THEN Append(c.html_content, ListHtml(c.current_list))
                         ELSE c.html_content,
                         BlockHtml(line)),
              current_list |-> c.current_list,
              in_list      |-> FALSE]

\* ContentStep with the test of the sub-heading before the test of the bullet
ContentStep_HeadingFirst(c, raw) ==
    LET line == strip(raw)
    IN  IF line = <<>> THEN c
        ELSE IF IsBulletLine(line) /\ ~IsSubHeading(line)
        THEN [html_content |-> c.html_content,
              current_list |-> Append(IF c.in_list THEN c.current_list ELSE <<>>,
                                      ListItem(line)),
              in_list      |-> TRUE]
        ELSE [html_content |->
                  Append(IF c.in_list
                         THEN Append(c.html_content, ListHtml(c.current_list))
                         ELSE c.html_content,
                         BlockHtml(line)),
              current_list |-> IF c.in_list THEN <<>> ELSE c.current_list,
              in_list      |-> FALSE]

\* one turn of the loop over content_lines; c holds html_content (a list of
\* pieces), current_list and in_list
ContentStep(c, raw) ==
    LET line == strip(raw)
    IN  IF line = <<>> THEN c
        ELSE IF IsBulletLine(line)
        THEN [html_content |-> c.html_content,
              current_list |-> Append(IF c.in_list THEN c.current_list ELSE <<>>,
                                      ListItem(line)),
              in_list      |-> TRUE]
        ELSE [html_content |->
                  Append(IF c.in_list
                         THEN Append(c.html_content, ListHtml(c.current_list))
                         ELSE c.html_content,
                         BlockHtml(line)),
              current_list |-> IF c.in_list THEN <<>> ELSE c.current_list,
              in_list      |-> FALSE]

RECURSIVE ContentLoop(_, _)
ContentLoop(c, lines) ==
    IF lines = <<>> \/ ~Evaluated(c) THEN c
    ELSE ContentLoop(ContentStep(c, Head(lines)), Tail(lines))

\* the list still open after the last line is closed
CloseRemainingList(c) ==
    IF c.in_list /\ c.current_list # <<>>
    THEN Append(c.html_content, ListHtml(c.current_list))
    ELSE c.html_content

_format_content_to_html(lines) ==
    join(CloseRemainingList(
            ContentLoop([html_content |-> <<>>, current_list |-> <<>>, in_list |-> FALSE],
                        lines)))

(***************************************************************************)
(* format_analysis_for_html: section detection.  A section block is the    *)
(* record of what _create_section_html interpolates into its template.     *)
(***************************************************************************)
section_config ==
    << [key |-> <<"S","U","M","M","A","R","Y">>, icon |-> "clipboard", class |-> "summary",
        title |-> <<"E","x","e","c","u","t","i","v","e"," ","S","u","m","m","a","r","y">>],
       [key |-> <<"K","E","Y"," ","F","I","N","D","I","N","G","S">>, icon |-> "magnifier", class |-> "findings",
        title |-> <<"K","e","y"," ","F","i","n","d","i","n","g","s">>],
       [key |-> <<"H","E","A","L","T","H"," ","S","T","A","T","U","S">>, icon |-> "heart", class |-> "health-status",
        title |-> <<"H","e","a","l","t","h"," ","S","t","a","t","u","s"," ","A","s","s","e","s","s","m","e","n","t">>],
       [key |-> <<"L","I","F","E","S","T","Y","L","E"," ","R","E","C","O","M","M","E","N","D","A","T","I","O","N","S">>, icon |-> "runner", class |-> "lifestyle",
        title |-> <<"L","i","f","e","s","t","y","l","e"," ","R","e","c","o","m","m","e","n","d","a","t","i","o","n","s">>],
       [key |-> <<"D","I","E","T","A","R","Y"," ","S","U","G","G","E","S","T","I","O","N","S">>, icon |-> "salad", class |-> "dietary",
        title |-> <<"D","i","e","t","a","r","y"," ","S","u","g","g","e","s","t","i","o","n","s">>],
       [key |-> <<"E","X","E","R","C","I","S","E"," ","R","E","C","O","M","M","E","N","D","A","T","I","O","N","S">>, icon |-> "biceps", class |-> "exercise",
        title |-> <<"E","x","e","r","c","i","s","e"," ","R","e","c","o","m","m","e","n","d","a","t","i","o","n","s">>],
       [key |-> <<"F","O","L","L","O","W","-","U","P"," ","A","C","T","I","O","N","S">>, icon |-> "hospital", class |-> "follow-up",
        title |-> <<"F","o","l","l","o","w","-","u","p"," ","A","c","t","i","o","n","s">>],
       [key |-> <<"P","R","E","V","E","N","T","I","V","E"," ","M","E","A","S","U","R","E","S">>, icon |-> "shield", class |-> "preventive",
        title |-> <<"P","r","e","v","e","n","t","i","v","e"," ","M","e","a","s","u","r","e","s">>] >>

\* key in line.upper() or any(word in line.upper() for word in key.split())
KeywordMatches(key, line) ==
    LET line_upper == upper(line)
        words == split_words(key)
    IN  \/ Contains(key, line_upper)
        \/ \E w \in DOMAIN words : Contains(words[w], line_upper)

\* the for loop over section_config.items(), which breaks at the first match
keyword_section(line) ==
    LET hits == {n \in DOMAIN section_config : KeywordMatches(section_config[n].key, line)}
    IN  IF hits = {} THEN None
        ELSE section_config[CHOOSE n \in hits : \A m \in hits : n <= m].key

\* group 2 of re.match(r'^(\d+\.)\s*(.+)', line); <<>> when there is no match
numbered_title(line) ==
    LET j == SkipWhile(line, 1, Digits)
        k == SkipWhile(line, j + 1, Whitespace)
    IN  IF j = 1 \/ j > Len(line) \/ line[j] # "." THEN <<>>
        ELSE IF k <= Len(line) THEN SubSeq(line, k, Len(line))
        ELSE IF k > j + 1 THEN <<line[Len(line)]>>
        ELSE <<>>

\* section_found with the keyword kept when both tests match
section_found_KeywordWins(line) ==
    IF keyword_section(line) # None THEN keyword_section(line)
    ELSE IF numbered_title(line) # <<>> THEN strip(upper(numbered_title(line)))
    ELSE None

\* section_found after both tests: the numbered match overwrites the keyword
section_found(line) ==
    LET group2 == numbered_title(line)
    IN  IF group2 # <<>> THEN strip(upper(group2)) ELSE keyword_section(line)

\* section_config.get(section_key, {'icon': page, 'class': 'general',
\*                                  'title': section_key.title()})
SectionConfigOf(section_key) ==
    LET hits == {n \in DOMAIN section_config : section_config[n].key = section_key}
    IN  IF hits = {}
        THEN [key |-> section_key, icon |-> "page", class |-> "general",
              title |-> title(section_key)]
        ELSE section_config[CHOOSE n \in hits : TRUE]

_create_section_html(section_key, lines) ==
    LET config == SectionConfigOf(section_key)
    IN  [class   |-> config.class,
         icon    |-> config.icon,
         title   |-> config.title,
         content |-> _format_content_to_html(lines)]

\* SaveSection testing current_content alone: the lines before the first
\* heading get a block of their own
SaveSection_Preamble(f) ==
    IF f.current_content # <<>>
    THEN Append(f.formatted_sections,
                _create_section_html(f.current_section, f.current_content))
    ELSE f.formatted_sections

\* SaveSection putting the new block first
SaveSection_Prepend(f) ==
    IF f.current_section # None /\ f.current_content # <<>>
    THEN <<_create_section_html(f.current_section, f.current_content)>>
         \o f.formatted_sections
    ELSE f.formatted_sections

\* SaveSection testing current_section alone: a section without content
\* gets a block too
SaveSection_Contentless(f) ==
    IF f.current_section # None
    THEN Append(f.formatted_sections,
                _create_section_html(f.current_section, f.current_content))
    ELSE f.formatted_sections

\* if current_section and current_content: formatted_sections.append(...)
SaveSection(f) ==
    IF f.current_section # None /\ f.current_content # <<>>
    THEN Append(f.formatted_sections,
                _create_section_html(f.current_section, f.current_content))
    ELSE f.formatted_sections

\* FormatStep keeping the heading line as the first content line of its section
FormatStep_HeadingKept(f, raw) ==
    LET line == strip(raw)
    IN  IF line = <<>> THEN f
        ELSE IF section_found(line) # None
        THEN [formatted_sections |-> SaveSection(f),
              current_section    |-> section_found(line),
              current_content    |-> <<line>>]
        ELSE [f EXCEPT !.current_content = Append(@, line)]

\* FormatStep that leaves current_content as it is when a section starts
FormatStep_ContentKept(f, raw) ==
    LET line == strip(raw)
    IN  IF line = <<>> THEN f
        ELSE IF section_found(line) # None
        THEN [formatted_sections |-> SaveSection(f),
              current_section    |-> section_found(line),
              current_content    |-> f.current_content]
        ELSE [f EXCEPT !.current_content = Append(@, line)]

\* one turn of the loop over lines; f holds formatted_sections,
\* current_section and current_content
FormatStep(f, raw) ==
    LET line == strip(raw)
    IN  IF line = <<>> THEN f
        ELSE IF section_found(line) # None
        THEN [formatted_sections |-> SaveSection(f),
              current_section    |-> section_found(line),
              current_content    |-> <<>>]
        ELSE [f EXCEPT !.current_content = Append(@, line)]

RECURSIVE FormatLoop(_, _)
FormatLoop(f, lines) ==
    IF lines = <<>> \/ ~Evaluated(f) THEN f
    ELSE FormatLoop(FormatStep(f, Head(lines)), Tail(lines))

\* the except block: one <p> per chunk between blank lines, line breaks as <br>
LineBreak == "<br>"

FallbackParagraph(para) ==
    <<ParagraphOpen>>
    \o [i \in DOMAIN para |-> IF para[i] = "\n" THEN LineBreak ELSE para[i]]
    \o <<ParagraphClose>>

RECURSIVE FallbackParagraphs(_)
FallbackParagraphs(paras) ==
    IF paras = <<>> THEN <<>>
    ELSE (IF strip(Head(paras)) # <<>> THEN FallbackParagraph(Head(paras)) ELSE <<>>)
         \o FallbackParagraphs(Tail(paras))

fallback_formatting(s) ==
    [class   |-> "general",
     icon    |-> "chart",
     title   |-> <<"H","e","a","l","t","h"," ","A","n","a","l","y","s","i","s">>,
     content |-> FallbackParagraphs(split(s, <<"\n","\n">>))]

\* GeneralSection with the paragraph split of the except block in its place
GeneralSection_Paragraphs(s) == fallback_formatting(s)

\* the general section built when formatted_sections is empty
GeneralSection(s) ==
    [class   |-> "general",
     icon    |-> "chart",
     title   |-> <<"H","e","a","l","t","h"," ","A","n","a","l","y","s","i","s">>,
     content |-> _format_content_to_html(split(s, <<"\n">>))]

\* if not formatted_sections: the general section; else the sections
SectionsOrGeneral(formatted_sections, s) ==
    IF formatted_sections = <<>> THEN <<GeneralSection(s)>> ELSE formatted_sections

\* the fallback taken only when no heading was matched
SectionsOrGeneral_NoHeading(f, s) ==
    IF f.current_section = None THEN <<GeneralSection(s)>> ELSE SaveSection(f)

\* format_analysis_for_html falling back only when no heading was matched
format_analysis_for_html_NoHeading(s) ==
    SectionsOrGeneral_NoHeading(
        FormatLoop([formatted_sections |-> <<>>, current_section |-> None,
                    current_content |-> <<>>],
                   split(s, <<"\n">>)),
        s)

\* format_analysis_for_html whose formatted_sections outlives the call: the
\* blocks of the call before are still in it
format_analysis_for_html_Retained(s) ==
    SectionsOrGeneral(
        SaveSection(FormatLoop([formatted_sections |-> formatted, current_section |-> None,
                                current_content |-> <<>>],
                               split(s, <<"\n">>))),
        s)

\* the try block; the value is the list of section blocks whose templates
\* ''.join concatenates
format_analysis_for_html(s) ==
    SectionsOrGeneral(
        SaveSection(FormatLoop([formatted_sections |-> <<>>, current_section |-> None,
                                current_content |-> <<>>],
                               split(s, <<"\n">>))),
        s)

(***************************************************************************)
(* The formatter applied to a model answer.                                *)
(***************************************************************************)
MaxLines == 4

\* two keyword headings (one upper-case, one a bullet that ends with a colon,
\* in the reverse of their canonical order), a numbered heading, a bullet, a
\* paragraph and a blank line
LinePool ==
    { <<"S","U","M","M","A","R","Y">>, <<"-"," ","K","e","y"," ","F","i","n","d","i","n","g","s",":">>, <<"1","."," ","D","i","e","t"," ","p","l","a","n">>, <<"-"," ","W","a","l","k"," ","d","a","i","l","y">>,
      <<"R","e","s","t"," ","w","e","l","l",".">>, <<>> }

LineSeqs == UNION {[1..n -> LinePool] : n \in 0..MaxLines}

Texts == {join_with(<<"\n">>, ls) : ls \in LineSeqs}

Init ==
    /\ pc = "format_analysis_for_html"
    /\ AppIdle
    /\ analysis_text \in Texts
    /\ formatted = <<>>
    /\ content_lines = <<>>
    /\ html_content = <<>>
    /\ text = <<>>
    /\ highlighted = <<>>

FormatAnalysis ==
    /\ pc = "format_analysis_for_html"
    /\ formatted' = format_analysis_for_html(analysis_text)
    /\ pc' = "done"
    /\ UNCHANGED <<analysis_text, content_lines, html_content, text, highlighted>>
    /\ UNCHANGED app_vars

Next == FormatAnalysis

Spec == Init /\ [][Next]_vars

(***************************************************************************)
(* The vocabulary of the properties: what the input holds, read off the    *)
(* input, and what the output holds, read off the output.                  *)
(***************************************************************************)
\* the lines of the input as the loop sees them: stripped, blank ones skipped
SeenLines(s) ==
    LET ls == split(s, <<"\n">>)
    IN  SelectSeq([i \in DOMAIN ls |-> strip(ls[i])], LAMBDA l : l # <<>>)

\* the line is one the formatter takes for a heading
IsHeading(line) == section_found(line) # None

HeadingIndexes(ls) == {i \in DOMAIN ls : IsHeading(ls[i])}

NoHeading(s) == HeadingIndexes(SeenLines(s)) = {}

\* the index of the first heading (one more than the length without any)
FirstHeading(ls) ==
    LET hs == HeadingIndexes(ls)
    IN  IF hs = {} THEN Len(ls) + 1 ELSE CHOOSE i \in hs : \A j \in hs : i <= j

\* the headings that a content line follows before the next heading
HeadingsWithContent(ls) ==
    LET hs == HeadingIndexes(ls)
    IN  {i \in hs : i < Len(ls) /\ (i + 1) \notin hs}

\* the content lines after the first heading, in source order
ContentAfterFirstHeading(ls) ==
    SelectSeq(SubSeq(ls, FirstHeading(ls) + 1, Len(ls)), LAMBDA l : ~IsHeading(l))

\* the content lines before the first heading
ContentBeforeFirstHeading(ls) == SubSeq(ls, 1, FirstHeading(ls) - 1)

\* the output is the one general section of the fallback
IsGeneralFallback(out) ==
    /\ Len(out) = 1
    /\ out[1].class = "general"
    /\ out[1].icon = "chart"
    /\ out[1].title = <<"H","e","a","l","t","h"," ","A","n","a","l","y","s","i","s">>

\* the opening tags of the list items, sub-headings and paragraphs of a content
ElementTags(content) ==
    SelectSeq(content, LAMBDA t : t \in {ItemOpen, SubHeadingOpen, ParagraphOpen})

\* the element a content line becomes
LineTag(line) ==
    IF IsBulletLine(line) THEN ItemOpen
    ELSE IF IsSubHeading(line) THEN SubHeadingOpen
    ELSE ParagraphOpen

LineTags(ls) == [i \in DOMAIN ls |-> LineTag(ls[i])]

\* the contents of all the blocks, one after the other
AllContent(out) == join([i \in DOMAIN out |-> out[i].content])

\* the line as a list item, as a sub-heading and as a paragraph
RenderedForms(line) ==
    { <<SubHeadingOpen>> \o _highlight_medical_values(line) \o <<SubHeadingClose>>,
      <<ParagraphOpen>> \o _highlight_medical_values(line) \o <<ParagraphClose>> }
    \cup (IF IsBulletLine(line) THEN {ListItem(line)} ELSE {})

\* some block renders the line as content
RenderedAsContent(line, out) ==
    LET forms == RenderedForms(line)
    IN  \E b \in DOMAIN out : \E r \in forms : Contains(r, out[b].content)

Formatted == pc = "done"

OnlyBeforeFirstHeading(ls) ==
    LET first == FirstHeading(ls)
    IN  {i \in 1..(first - 1) : \A j \in (first + 1)..Len(ls) : ls[j] # ls[i]}

RECURSIVE Ascending(_)
Ascending(set) ==
    IF set = {} THEN <<>>
    ELSE LET m == CHOOSE i \in set : \A j \in set : i <= j
         IN  <<m>> \o Ascending(set \ {m})

\* the category and title the heading line stands for
HeadingLabel(line) ==
    <<SectionConfigOf(section_found(line)).class, SectionConfigOf(section_found(line)).title>>

\* C8: the section blocks appear in the order in which their heading lines
\* occur in the source text, whatever that order is.
C8_SourceOrder ==
    Formatted /\ ~IsGeneralFallback(formatted) =>
        LET ls == SeenLines(analysis_text)
            hs == Ascending(HeadingsWithContent(ls))
        IN  [b \in DOMAIN formatted |-> <<formatted[b].class, formatted[b].title>>]
                = [n \in DOMAIN hs |-> HeadingLabel(ls[hs[n]])]

\* two blocks in the reverse of the canonical order: Key Findings, then Summary
C8_Witness ==
    /\ Formatted
    /\ Len(formatted) = 2
    /\ formatted[1].class = "findings"
    /\ formatted[2].class = "summary"

(***************************************************************************)
(* The formatter applied to answers of one or two lines that name each of  *)
(* the eight keywords, or one word of one.                                 *)
(***************************************************************************)
MaxKeywordLines == 2

KeywordLinePool ==
    { <<"S","U","M","M","A","R","Y">>, <<"K","e","y"," ","F","i","n","d","i","n","g","s",":">>, <<"H","E","A","L","T","H"," ","S","T","A","T","U","S">>, <<"L","i","f","e","s","t","y","l","e"," ","R","e","c","o","m","m","e","n","d","a","t","i","o","n","s">>,
      <<"D","I","E","T","A","R","Y"," ","S","U","G","G","E","S","T","I","O","N","S">>, <<"E","X","E","R","C","I","S","E"," ","R","E","C","O","M","M","E","N","D","A","T","I","O","N","S">>, <<"F","o","l","l","o","w","-","u","p"," ","A","c","t","i","o","n","s",":">>,
      <<"P","R","E","V","E","N","T","I","V","E"," ","M","E","A","S","U","R","E","S">>, <<"Y","o","u","r"," ","h","e","a","l","t","h"," ","i","s"," ","f","i","n","e">>, <<"1","."," ","D","i","e","t"," ","p","l","a","n">>,
      <<"-"," ","W","a","l","k"," ","d","a","i","l","y">>, <<"R","e","s","t"," ","w","e","l","l",".">>, <<>> }

KeywordTexts ==
    {join_with(<<"\n">>, ls) : ls \in UNION {[1..n -> KeywordLinePool] : n \in 0..MaxKeywordLines}}

InitKeywords ==
    /\ pc = "format_analysis_for_html"
    /\ AppIdle
    /\ analysis_text \in KeywordTexts
    /\ formatted = <<>>
    /\ content_lines = <<>>
    /\ html_content = <<>>
    /\ text = <<>>
    /\ highlighted = <<>>

SpecKeywords == InitKeywords /\ [][Next]_vars

\* the line names one of the eight section titles in full
FullKeywords(line) ==
    {n \in DOMAIN section_config : Contains(section_config[n].key, upper(line))}

\* a heading as the specification defines it: a full section title as a
\* case-insensitive substring, or the numbered pattern
IsSpecifiedHeading(line) == FullKeywords(line) # {} \/ numbered_title(line) # <<>>

(***************************************************************************)
(* C4                                                                      *)
(***************************************************************************)
\* C4: a line is treated as a heading exactly when it contains a full section
\* title or matches the numbered pattern; a line with only one word of a
\* title is content.  So a heading followed by one such content line gives
\* one section block, holding that line.
C4_HeadingIffKeywordOrNumbered ==
    Formatted =>
        LET ls == SeenLines(analysis_text)
        IN  /\ \A i \in DOMAIN ls : IsHeading(ls[i]) <=> IsSpecifiedHeading(ls[i])
            /\ Len(ls) = 2 /\ IsSpecifiedHeading(ls[1]) /\ ~IsSpecifiedHeading(ls[2])
                  => /\ Len(formatted) = 1
                     /\ ~IsGeneralFallback(formatted)
                     /\ ElementTags(formatted[1].content) = <<LineTag(ls[2])>>

(***************************************************************************)
(* C5                                                                      *)
(***************************************************************************)
\* C5: an un-numbered heading line that contains the keyword K opens a section
\* whose block carries K's own category and title.
C5_KeywordOwnCategory ==
    Formatted =>
        LET ls == SeenLines(analysis_text)
        IN  Len(ls) = 2 /\ numbered_title(ls[1]) = <<>> /\ ~IsHeading(ls[2])
                => \A n \in FullKeywords(ls[1]) :
                      /\ Len(formatted) = 1
                      /\ formatted[1].class = section_config[n].class
                      /\ formatted[1].title = section_config[n].title

(***************************************************************************)
(* The formatter applied to answers with the eight sections in canonical   *)
(* order, each heading followed by one content line.                       *)
(***************************************************************************)
SectionNumbers == <<"1","2","3","4","5","6","7","8">>

SectionContents == { <<"R","e","s","t"," ","w","e","l","l",".">>, <<"-"," ","W","a","l","k"," ","d","a","i","l","y">> }

\* the heading of section n, bare or numbered
HeadingLine(n, numbered) ==
    IF numbered THEN <<SectionNumbers[n]>> \o <<"."," ">> \o section_config[n].key
    ELSE section_config[n].key

EightSectionText(numbered, contents) ==
    join_with(<<"\n">>,
              join([n \in DOMAIN section_config |-> <<HeadingLine(n, numbered), contents[n]>>]))

EightSectionTexts ==
    {EightSectionText(numbered, contents) :
        numbered \in BOOLEAN, contents \in [DOMAIN section_config -> SectionContents]}

InitEightSections ==
    /\ pc = "format_analysis_for_html"
    /\ AppIdle
    /\ analysis_text \in EightSectionTexts
    /\ formatted = <<>>
    /\ content_lines = <<>>
    /\ html_content = <<>>
    /\ text = <<>>
    /\ highlighted = <<>>

SpecEightSections == InitEightSections /\ [][Next]_vars

\* the keywords from the n-th on occur in s one after the other
RECURSIVE KeywordsInOrder(_, _)
KeywordsInOrder(s, n) ==
    IF n > Len(section_config) THEN TRUE
    ELSE LET i == Find(upper(s), section_config[n].key)
         IN  /\ i # 0
             /\ KeywordsInOrder(SubSeq(s, i + Len(section_config[n].key), Len(s)), n + 1)

(***************************************************************************)
(* C1                                                                      *)
(***************************************************************************)
\* C1: for an input that contains the eight canonical keywords in order, the
\* output is exactly eight section blocks, those of the eight sections in
\* that order.
C1_EightBlocksInOrder ==
    Formatted /\ KeywordsInOrder(analysis_text, 1) =>
        /\ Len(formatted) = Len(section_config)
        /\ \A n \in DOMAIN formatted :
              /\ formatted[n].class = section_config[n].class
              /\ formatted[n].title = section_config[n].title

(***************************************************************************)
(* _format_content_to_html applied to the content lines of a section.      *)
(***************************************************************************)
MaxContentLines == 4

ContentLinePool ==
    { <<"-"," ","W","a","l","k"," ","d","a","i","l","y">>, <<"*"," ","R","e","s","t">>, <<"U+2022"," ","E","a","t"," ","l","e","s","s">>, <<"R","e","s","t"," ","w","e","l","l",".">>, <<"N","O","T","E",":">>, <<>> }

InitContent ==
    /\ pc = "_format_content_to_html"
    /\ AppIdle
    /\ content_lines \in UNION {[1..n -> ContentLinePool] : n \in 0..MaxContentLines}
    /\ html_content = <<>>
    /\ analysis_text = <<>>
    /\ formatted = <<>>
    /\ text = <<>>
    /\ highlighted = <<>>

FormatContent ==
    /\ pc = "_format_content_to_html"
    /\ html_content' = _format_content_to_html(content_lines)
    /\ pc' = "done"
    /\ UNCHANGED <<content_lines, analysis_text, formatted, text, highlighted>>
    /\ UNCHANGED app_vars

NextContent == FormatContent

SpecContent == InitContent /\ [][NextContent]_vars

\* the non-blank lines, stripped (blank lines are skipped before anything else)
NonBlank(lines) ==
    SelectSeq([i \in DOMAIN lines |-> strip(lines[i])], LAMBDA l : l # <<>>)

\* the maximal runs of consecutive bullet lines, in source order
RECURSIVE BulletRuns(_, _)
BulletRuns(ls, run) ==
    IF ls = <<>> THEN (IF run = <<>> THEN <<>> ELSE <<run>>)
    ELSE IF IsBulletLine(Head(ls)) THEN BulletRuns(Tail(ls), Append(run, Head(ls)))
    ELSE (IF run = <<>> THEN <<>> ELSE <<run>>) \o BulletRuns(Tail(ls), <<>>)

\* the bodies of the <li> elements of a list, in order
RECURSIVE ItemsOf(_)
ItemsOf(list) ==
    LET o == Find(list, <<ItemOpen>>)
        rest == SubSeq(list, o + 1, Len(list))
        c == Find(rest, <<ItemClose>>)
    IN  IF o = 0 \/ c = 0 THEN <<>>
        ELSE <<SubSeq(rest, 1, c - 1)>> \o ItemsOf(SubSeq(rest, c + 1, Len(rest)))

\* the <ul> elements of a content, each as the sequence of its items
RECURSIVE ListsOf(_)
ListsOf(html) ==
    LET o == Find(html, <<ListOpen>>)
        rest == SubSeq(html, o + 1, Len(html))
        c == Find(rest, <<ListClose>>)
    IN  IF o = 0 \/ c = 0 THEN <<>>
        ELSE <<ItemsOf(SubSeq(rest, 1, c - 1))>> \o ListsOf(SubSeq(rest, c + 1, Len(rest)))

\* the markup of the lists and blocks, without the text
Skeleton(html) ==
    SelectSeq(html, LAMBDA t : t \in {ListOpen, ListClose, ItemOpen, ItemClose,
                                      SubHeadingOpen, ParagraphOpen})

\* the skeleton the lines call for: a list around each maximal run of bullets
RECURSIVE ExpectedSkeleton(_, _)
ExpectedSkeleton(ls, inrun) ==
    IF ls = <<>> THEN (IF inrun THEN <<ListClose>> ELSE <<>>)
    ELSE IF IsBulletLine(Head(ls))
    THEN (IF inrun THEN <<>> ELSE <<ListOpen>>) \o <<ItemOpen, ItemClose>>
         \o ExpectedSkeleton(Tail(ls), TRUE)
    ELSE (IF inrun THEN <<ListClose>> ELSE <<>>) \o <<LineTag(Head(ls))>>
         \o ExpectedSkeleton(Tail(ls), FALSE)

\* the text of a bullet line as its item shows it
ItemBody(line) == _highlight_medical_values(strip(Tail(line)))

(***************************************************************************)
(* C9                                                                      *)
(***************************************************************************)
\* C9: every maximal run of consecutive bullet lines yields exactly one list
\* with one item per bullet line in source order; a non-bullet line or the end
\* of the section closes the list; no bullet line is lost, duplicated or moved
\* to another list.  (Lines are the non-blank lines: blank lines are
\* discarded first.)
C9_OneListPerBulletRun ==
    pc = "done" =>
        LET runs == BulletRuns(NonBlank(content_lines), <<>>)
        IN  /\ ListsOf(html_content)
                = [r \in DOMAIN runs |-> [k \in DOMAIN runs[r] |-> ItemBody(runs[r][k])]]
            /\ Skeleton(html_content) = ExpectedSkeleton(NonBlank(content_lines), FALSE)

\* two bullet runs, the first of two lines, parted by a paragraph
C9_Witness ==
    /\ pc = "done"
    /\ content_lines = << <<"-"," ","W","a","l","k"," ","d","a","i","l","y">>, <<"*"," ","R","e","s","t">>, <<"R","e","s","t"," ","w","e","l","l",".">>, <<"U+2022"," ","E","a","t"," ","l","e","s","s">> >>
    /\ Len(ListsOf(html_content)) = 2
    /\ Len(ListsOf(html_content)[1]) = 2

(***************************************************************************)
(* _highlight_medical_values applied to a number with a unit.              *)
(***************************************************************************)
ValuePrefixes == { <<>>, <<"H","b","A","1","c",":"," ">> }

ValueNumbers == { <<"7",".","2">>, <<"1","5","0">> }

ListedUnits == {medical_units[n] : n \in DOMAIN medical_units}

ValueSuffixes == { <<>>, <<" ","(","H","I","G","H",")">>, <<" ","i","s"," ","l","o","w">>, <<")">> }

HighlightTexts ==
    {pre \o num \o unit \o post :
        pre \in ValuePrefixes, num \in ValueNumbers, unit \in ListedUnits,
        post \in ValueSuffixes}

InitHighlight ==
    /\ pc = "_highlight_medical_values"
    /\ AppIdle
    /\ text \in HighlightTexts
    /\ highlighted = <<>>
    /\ analysis_text = <<>>
    /\ formatted = <<>>
    /\ content_lines = <<>>
    /\ html_content = <<>>

HighlightValues ==
    /\ pc = "_highlight_medical_values"
    /\ highlighted' = _highlight_medical_values(text)
    /\ pc' = "done"
    /\ UNCHANGED <<text, analysis_text, formatted, content_lines, html_content>>
    /\ UNCHANGED app_vars

NextHighlight == HighlightValues

SpecHighlight == InitHighlight /\ [][NextHighlight]_vars

\* one value highlight around the number and its unit together
ValueHighlighted(num, unit, out) ==
    Contains(<<ValueOpen>> \o num \o unit \o <<SpanClose>>, out)

\* a term highlight around the status word, its class the word lower-cased
TermHighlighted(word, out) ==
    \E body \in {word, upper(word)} :
        Contains(<<TermOpen>> \o lower(word) \o <<TagEnd>> \o body \o <<SpanClose>>, out)

(***************************************************************************)
(* C10                                                                     *)
(***************************************************************************)
\* C10: a number immediately followed by a listed unit is wrapped, number and
\* unit together, in one value highlight, for every listed unit and whatever
\* follows the unit; a listed status word is wrapped in a term highlight whose
\* class is the word lower-cased.
C10_ValueWithUnitHighlighted ==
    pc = "done" =>
        /\ \A pre \in ValuePrefixes, num \in ValueNumbers, unit \in ListedUnits,
              post \in ValueSuffixes :
              text = pre \o num \o unit \o post => ValueHighlighted(num, unit, highlighted)
        /\ Contains(<<"(","H","I","G","H",")">>, text) => TermHighlighted(<<"H","I","G","H">>, highlighted)
        /\ Contains(<<" ","l","o","w">>, text) => TermHighlighted(<<"l","o","w">>, highlighted)

(***************************************************************************)
(* A bullet line with a number and a unit, inside an open section.         *)
(***************************************************************************)
BulletTextsBefore ==
    { <<"R","e","d","u","c","e"," ","s","o","d","i","u","m"," ","t","o"," ">>, <<"I","n","c","r","e","a","s","e"," ","f","i","b","e","r"," ","t","o"," ">>, <<"K","e","e","p"," ","s","u","g","a","r"," ","l","o","w",","," ","u","n","d","e","r"," ">> }

BulletNumbers == { <<"1","5","0","0">>, <<"7",".","2">> }

BulletUnitGaps == { <<>>, <<" ">> }

BulletTextsAfter == { <<" ","d","a","i","l","y">>, <<>> }

\* the section heading and, under it, the bullet line
BulletValueText(before, num, gap, unit, after) ==
    <<"S","U","M","M","A","R","Y","\n","-"," ">> \o before \o num \o gap \o unit \o after

BulletValueTexts ==
    {BulletValueText(before, num, gap, unit, after) :
        before \in BulletTextsBefore, num \in BulletNumbers, gap \in BulletUnitGaps,
        unit \in ListedUnits, after \in BulletTextsAfter}

InitBulletValue ==
    /\ pc = "format_analysis_for_html"
    /\ AppIdle
    /\ analysis_text \in BulletValueTexts
    /\ formatted = <<>>
    /\ content_lines = <<>>
    /\ html_content = <<>>
    /\ text = <<>>
    /\ highlighted = <<>>

SpecBulletValue == InitBulletValue /\ [][Next]_vars

\* the tags the formatter inserts
InsertedTags ==
    {ValueOpen, SpanClose, TermOpen, TagEnd, StrongOpen, StrongClose}

\* position i lies in the class attribute of a term highlight's opening tag
InsideTermTag(html, i) ==
    \E j \in 1..i : html[j] = TermOpen /\ \A k \in j..i : html[k] # TagEnd

\* what is left of a rendered line when the inserted markup is removed
PlainText(html) ==
    LET masked == [i \in DOMAIN html |-> IF InsideTermTag(html, i) THEN TagEnd ELSE html[i]]
    IN  SelectSeq(masked, LAMBDA t : t \notin InsertedTags)

\* the content is one list of one item; its body is what the tags enclose
IsSingleItemList(content) ==
    /\ Len(content) >= 4
    /\ content[1] = ListOpen /\ content[2] = ItemOpen
    /\ content[Len(content) - 1] = ItemClose /\ content[Len(content)] = ListClose
    /\ Cardinality({i \in DOMAIN content : content[i] = ItemOpen}) = 1
    /\ Cardinality({i \in DOMAIN content : content[i] = ListOpen}) = 1

SingleItemBody(content) == SubSeq(content, 3, Len(content) - 2)

(***************************************************************************)
(* C11                                                                     *)
(***************************************************************************)
\* C11: a bullet line '- <text with a number and a unit>' inside an open
\* section yields exactly one list item; the item has a value highlight
\* around the number with its unit, and removing the inserted markup from the
\* item gives back the text after the bullet marker unchanged.
C11_BulletValuePreserved ==
    pc = "done" =>
        \A before \in BulletTextsBefore, num \in BulletNumbers, gap \in BulletUnitGaps,
           unit \in ListedUnits, after \in BulletTextsAfter :
            analysis_text = BulletValueText(before, num, gap, unit, after) =>
                /\ Len(formatted) = 1
                /\ IsSingleItemList(formatted[1].content)
                /\ Contains(<<ValueOpen>> \o num \o gap \o unit \o <<SpanClose>>,
                            formatted[1].content)
                /\ PlainText(SingleItemBody(formatted[1].content))
                       = before \o num \o gap \o unit \o after

(***************************************************************************)
(* Content lines with '**text**' spans.                                    *)
(***************************************************************************)
\* what stands before the first span: nothing, words, a bullet marker
EmphasisTextsBefore == { <<>>, <<"T","a","k","e"," ">>, <<"-"," ">>, <<"*"," ">>, <<"-"," ","T","a","k","e"," ">> }

EmphasisSpanTexts == { <<"t","h","i","s">>, <<"N","o","t","e">>, <<"r","e","s","t"," ","w","e","l","l">>, <<"7",".","2"," ","m","g">> }

\* what follows the first span; the last holds a second span
EmphasisTextsAfter == { <<>>, <<" ","r","e","s","t">>, <<" ","a","n","d"," ","*","*","t","h","a","t","*","*">> }

EmphasisMarker == <<"*","*">>

EmphasisLine(before, span, after) ==
    before \o EmphasisMarker \o span \o EmphasisMarker \o after

EmphasisLines ==
    {EmphasisLine(before, span, after) :
        before \in EmphasisTextsBefore, span \in EmphasisSpanTexts,
        after \in EmphasisTextsAfter}

InitEmphasis ==
    /\ pc = "_format_content_to_html"
    /\ AppIdle
    /\ content_lines \in {<<line>> : line \in EmphasisLines}
    /\ html_content = <<>>
    /\ analysis_text = <<>>
    /\ formatted = <<>>
    /\ text = <<>>
    /\ highlighted = <<>>

SpecEmphasis == InitEmphasis /\ [][NextContent]_vars

\* the texts the output shows emphasised, markup inside them removed
EmphasisedTexts(html) ==
    {PlainText(SubSeq(html, i + 1, j - 1)) :
        <<i, j>> \in {p \in (DOMAIN html) \X (DOMAIN html) :
                        /\ p[1] < p[2]
                        /\ html[p[1]] = StrongOpen /\ html[p[2]] = StrongClose
                        /\ \A k \in (p[1] + 1)..(p[2] - 1) : html[k] # StrongClose}}

(***************************************************************************)
(* C12                                                                     *)
(***************************************************************************)
\* C12: in a content line every '**text**' span is rendered as emphasis, also
\* when the span is the first thing on the line: the text of each span is
\* shown emphasised and no marker is left in the output.
C12_EverySpanEmphasised ==
    pc = "done" =>
        \A before \in EmphasisTextsBefore, span \in EmphasisSpanTexts,
           after \in EmphasisTextsAfter :
            content_lines = <<EmphasisLine(before, span, after)>> =>
                /\ span \in EmphasisedTexts(html_content)
                /\ (after = <<" ","a","n","d"," ","*","*","t","h","a","t","*","*">> => <<"t","h","a","t">> \in EmphasisedTexts(html_content))
                /\ ~Contains(<<"*">>, html_content)

(***************************************************************************)
(* The formatter called again and again within one session, between        *)
(* changes of st.session_state.                                            *)
(***************************************************************************)
MaxCalls == 3

\* what the user types into the credential field of the sidebar
CredentialInputs ==
    { <<>>, <<"s","k","-","s","h","o","r","t">>, <<"p","k","-","a","b","c","d","e","f","g","h","i","j","k","l","m","n","o","p","q","r","s","t","u">>, <<"s","k","-","a","b","c","d","e","f","g","h","i","j","k","l","m","n","o","p","q">>,
      <<"s","k","-","a","b","c","d","e","f","g","h","i","j","k","l","m","n","o","p","q","r","s","t","u">> }

\* the model answers handed to the formatter
FormatterInputs ==
    { <<"S","U","M","M","A","R","Y","\n","R","e","s","t"," ","w","e","l","l",".">>, <<"R","e","s","t"," ","w","e","l","l",".","\n","-"," ","W","a","l","k"," ","d","a","i","l","y">>, <<"1","."," ","D","i","e","t"," ","p","l","a","n","\n","-"," ","W","a","l","k"," ","d","a","i","l","y">> }

InitSession ==
    /\ pc = "session"
    /\ AppIdle
    /\ analysis_text = <<>>
    /\ formatted = <<>>
    /\ content_lines = <<>>
    /\ html_content = <<>>
    /\ text = <<>>
    /\ highlighted = <<>>

\* StoredCredential without the test of the length
StoredCredential_PrefixOnly(api_key) ==
    IF api_key # <<>> /\ startswith(api_key, <<"s","k","-">>)
    THEN api_key
    ELSE <<>>

\* the sidebar of main: the credential typed is stored if it has the prefix
\* and the length, and the stored credential is emptied otherwise
StoredCredential(api_key) ==
    IF api_key # <<>> /\ startswith(api_key, <<"s","k","-">>) /\ Len(api_key) > 20
    THEN api_key
    ELSE <<>>

EnterCredential ==
    /\ pc = "session"
    /\ \E api_key \in CredentialInputs :
          /\ api_key_input' = api_key
          /\ session_state' = [session_state EXCEPT !.openai_api_key = StoredCredential(api_key)]
    /\ UNCHANGED <<pc, analysis_text, formatted, content_lines, html_content, text,
                   highlighted, calls>>
    /\ UNCHANGED <<analysis_vars, main_vars>>
    /\ UNCHANGED setup_vars

\* the preview button, shown once a report was rendered
RequestPreview ==
    /\ pc = "session"
    /\ calls # <<>>
    /\ session_state' = [session_state EXCEPT !.show_preview = TRUE]
    /\ UNCHANGED <<pc, analysis_text, formatted, content_lines, html_content, text,
                   highlighted, calls>>
    /\ UNCHANGED <<analysis_vars, main_vars>>
    /\ UNCHANGED <<api_key_input, setup_vars>>

\* create_html_report calling the formatter on the answer of an analysis
FormatReport ==
    /\ pc = "session"
    /\ Len(calls) < MaxCalls
    /\ \E s \in FormatterInputs :
          /\ analysis_text' = s
          /\ formatted' = format_analysis_for_html(s)
          /\ calls' = Append(calls, [input   |-> s,
                                     session |-> session_state,
                                     output  |-> format_analysis_for_html(s)])
    /\ UNCHANGED <<pc, content_lines, html_content, text, highlighted, session_state>>
    /\ UNCHANGED <<analysis_vars, main_vars>>
    /\ UNCHANGED <<api_key_input, setup_vars>>

NextSession == EnterCredential \/ RequestPreview \/ FormatReport

SpecSession == InitSession /\ [][NextSession]_vars

MaxAnalyses == 2

\* the credential found in st.session_state: none, one without the prefix,
\* a short one, one of twenty characters, one longer
CredentialStates ==
    { <<>>, <<"p","k","-","a","b","c","d","e","f","g","h","i","j","k","l","m","n","o","p","q","r","s","t","u">>, <<"s","k","-","s","h","o","r","t">>, <<"s","k","-","a","b","c","d","e","f","g","h","i","j","k","l","m","n","o","p","q">>,
      <<"s","k","-","a","b","c","d","e","f","g","h","i","j","k","l","m","n","o","p","q","r","s","t","u">> }

\* the text handed over: empty, blank, without a page marker, of two pages
ExtractedTexts ==
    { <<>>, <<" ","\n"," ">>, <<"H","b"," ","1","3">>, <<"-","-","-"," ","P","a","g","e"," ","1"," ","-","-","-","\n","H","b"," ","1","3","\n","\n","-","-","-"," ","P","a","g","e"," ","2"," ","-","-","-","\n","O","K">> }

Languages == {"English", "Hindi"}

Timestamps == { <<"2","0","2","4","-","0","1","-","0","1"," ","1","0",":","0","0",":","0","0">> }

\* a JSON null where the answer should be
JsonNull == <<"null">>

\* the answers of the service: a text, or no text
Answers == { <<"S","U","M","M","A","R","Y","\n","R","e","s","t"," ","w","e","l","l",".">>, JsonNull }

\* the body of a response: JSON with the choices, JSON without, no JSON
ResponseBodies ==
    {[json |-> TRUE, choices |-> <<a>>] : a \in Answers}
    \cup {[json |-> TRUE, choices |-> <<>>], [json |-> FALSE, choices |-> <<>>]}

\* what requests.post does: it raises (no connection, timeout), or returns a
\* response with a status and a body
UpstreamResponses ==
    {[raised |-> TRUE, status_code |-> 0, body |-> [json |-> FALSE, choices |-> <<>>]]}
    \cup {[raised |-> FALSE, status_code |-> c, body |-> b] :
            c \in {200, 401, 500}, b \in ResponseBodies}

PleaseEnterKey == "Please enter your OpenAI API key in the sidebar."

InvalidKeyFormat == "Invalid API key format. Please check your OpenAI API key."

NoTextExtracted == "No text extracted from PDF to analyze."

OpenAIApiError == "OpenAI API error"

ErrorAnalyzing == "Error analyzing health report"

\* if not api_key
MissingCredential(api_key) == api_key = <<>>

\* MalformedCredential without the test of the prefix
MalformedCredential_LengthOnly(api_key) == Len(api_key) < 20

\* if not api_key.startswith('sk-') or len(api_key) < 20
MalformedCredential(api_key) ==
    ~startswith(api_key, <<"s","k","-">>) \/ Len(api_key) < 20

\* BlankText without the test of the stripped text
BlankText_EmptyOnly(t) == t = <<>>

\* if not text or not text.strip()
BlankText(t) == t = <<>> \/ strip(t) = <<>>

\* Refusal with the test of the text before the tests of the credential
Refusal_TextFirst(api_key, t) ==
    IF BlankText(t) THEN <<NoTextExtracted>>
    ELSE IF MissingCredential(api_key) THEN <<PleaseEnterKey>>
    ELSE IF MalformedCredential(api_key) THEN <<InvalidKeyFormat>>
    ELSE <<>>

\* the message of the first check that fails, <<>> when none does
Refusal(api_key, t) ==
    IF MissingCredential(api_key) THEN <<PleaseEnterKey>>
    ELSE IF MalformedCredential(api_key) THEN <<InvalidKeyFormat>>
    ELSE IF BlankText(t) THEN <<NoTextExtracted>>
    ELSE <<>>

\* str.count: the matches of p in s from i on, none overlapping another
RECURSIVE CountFrom(_, _, _)
CountFrom(s, p, i) ==
    LET m == Leftmost({j \in i..Len(s) : StartsWithAt(s, j, p)})
    IN  IF m = 0 THEN 0 ELSE 1 + CountFrom(s, p, m + Len(p))

\* text.count("--- Page") if "--- Page" in text else 1
pages_analyzed(t) ==
    IF Contains(<<"-","-","-"," ","P","a","g","e">>, t) THEN CountFrom(t, <<"-","-","-"," ","P","a","g","e">>, 1) ELSE 1

\* response.json() and response_data['choices'][0]['message']['content'] succeed
Parsable(body) == body.json /\ body.choices # <<>>

\* ResultOf with an empty analysis returned for a status other than 200
ResultOf_Defaulted(r, request, now) ==
    IF r.raised \/ (r.status_code = 200 /\ ~Parsable(r.body))
    THEN <<>>
    ELSE <<[analysis              |-> IF r.status_code = 200 /\ Parsable(r.body)
                                      THEN r.body.choices[1] ELSE <<>>,
            timestamp             |-> now,
            language              |-> request.language,
            pages_analyzed        |-> pages_analyzed(request.text),
            extracted_text_length |-> Len(request.text)]>>

\* what the call returns once requests.post is over
ResultOf(r, request, now) ==
    IF r.raised \/ r.status_code # 200 \/ ~Parsable(r.body)
    THEN <<>>
    ELSE <<[analysis              |-> r.body.choices[1],
            timestamp             |-> now,
            language              |-> request.language,
            pages_analyzed        |-> pages_analyzed(request.text),
            extracted_text_length |-> Len(request.text)]>>

\* the message shown once requests.post is over
ErrorOf(r) ==
    IF r.raised THEN <<ErrorAnalyzing>>
    ELSE IF r.status_code # 200 THEN <<OpenAIApiError>>
    ELSE IF ~Parsable(r.body) THEN <<ErrorAnalyzing>>
    ELSE <<>>

InitAnalysis ==
    /\ pc = "analyze_health_report"
    /\ AppIdle
    /\ analysis_text = <<>>
    /\ formatted = <<>>
    /\ content_lines = <<>>
    /\ html_content = <<>>
    /\ text = <<>>
    /\ highlighted = <<>>

\* an analyse action: the call up to and with requests.post
AnalyzeHealthReport ==
    /\ pc = "analyze_health_report"
    /\ clicks < MaxAnalyses
    /\ \E api_key \in CredentialStates, t \in ExtractedTexts, language \in Languages :
          /\ session_state' = [session_state EXCEPT !.openai_api_key = api_key]
          /\ text' = t
          /\ clicks' = clicks + 1
          /\ errors' = Refusal(api_key, t)
          /\ response' = <<>>
          /\ analysis_result' = <<>>
          /\ IF Refusal(api_key, t) = <<>>
             THEN /\ prompt' = <<[language |-> language, text |-> t]>>
                  /\ posts' = Append(posts, [click         |-> clicks + 1,
                                             authorization |-> api_key,
                                             content       |-> t])
                  /\ in_flight' = in_flight + 1
                  /\ pc' = "requests.post"
             ELSE /\ prompt' = <<>>
                  /\ UNCHANGED <<posts, in_flight, pc>>
    /\ UNCHANGED <<analysis_text, formatted, content_lines, html_content, highlighted, calls>>
    /\ UNCHANGED main_vars
    /\ UNCHANGED <<api_key_input, setup_vars>>

\* ReceiveResponse that posts the request again when the call failed
ReceiveResponse_Retry ==
    /\ pc = "requests.post"
    /\ \E r \in UpstreamResponses, now \in Timestamps :
          /\ response' = <<r>>
          /\ analysis_result' = ResultOf(r, prompt[1], now)
          /\ errors' = ErrorOf(r)
          /\ IF ErrorOf(r) # <<>>
             THEN /\ posts' = Append(posts, posts[Len(posts)])
                  /\ UNCHANGED <<in_flight, pc>>
             ELSE /\ in_flight' = in_flight - 1
                  /\ pc' = "analyze_health_report"
                  /\ UNCHANGED posts
    /\ UNCHANGED <<analysis_text, formatted, content_lines, html_content, text, highlighted,
                   session_state, calls, clicks, prompt>>
    /\ UNCHANGED main_vars
    /\ UNCHANGED <<api_key_input, setup_vars>>

\* requests.post is over: the rest of the call
ReceiveResponse ==
    /\ pc = "requests.post"
    /\ \E r \in UpstreamResponses, now \in Timestamps :
          /\ response' = <<r>>
          /\ analysis_result' = ResultOf(r, prompt[1], now)
          /\ errors' = ErrorOf(r)
    /\ in_flight' = in_flight - 1
    /\ pc' = "analyze_health_report"
    /\ UNCHANGED <<analysis_text, formatted, content_lines, html_content, text, highlighted,
                   session_state, calls, clicks, prompt, posts>>
    /\ UNCHANGED main_vars
    /\ UNCHANGED <<api_key_input, setup_vars>>

NextAnalysis == AnalyzeHealthReport \/ ReceiveResponse

SpecAnalysis == InitAnalysis /\ [][NextAnalysis]_vars

\* the requests posted during the latest analyse action
PostsOfCall == {i \in DOMAIN posts : posts[i].click = clicks}

(***************************************************************************)
(* C14                                                                     *)
(***************************************************************************)
\* C14: called with a credential that does not start with the required
\* prefix, the analysis step issues no upstream request, reports the
\* malformed credential, and returns no result.
C14_NoPrefixRefused ==
    clicks > 0 /\ session_state.openai_api_key # <<>>
               /\ ~startswith(session_state.openai_api_key, <<"s","k","-">>) =>
        /\ PostsOfCall = {}
        /\ pc # "requests.post"
        /\ errors = <<InvalidKeyFormat>>
        /\ analysis_result = <<>>

\* the second analyse action is refused for its credential, long enough but
\* without the prefix, after a first one that posted its request
C14_Witness ==
    /\ clicks = 2
    /\ session_state.openai_api_key = <<"p","k","-","a","b","c","d","e","f","g","h","i","j","k","l","m","n","o","p","q","r","s","t","u">>
    /\ ~BlankText(text)
    /\ Len(posts) = 1
    /\ errors = <<InvalidKeyFormat>>

\* the text is empty or holds nothing but blanks, tabs and line breaks
OnlyWhitespace(t) == \A i \in DOMAIN t : t[i] \in Whitespace

(***************************************************************************)
(* C15                                                                     *)
(***************************************************************************)
\* C15 as stated: called with an empty or whitespace-only text, the analysis
\* step reports the empty input, builds no prompt and issues no request,
\* whatever the credential.
C15_BlankReportsEmptyInput ==
    clicks > 0 /\ OnlyWhitespace(text) =>
        /\ errors = <<NoTextExtracted>>
        /\ prompt = <<>>
        /\ PostsOfCall = {}

\* C15 amended: called with an empty or whitespace-only text, the analysis
\* step builds no prompt, issues no request and returns no result, whatever
\* the credential; it reports exactly one error, which is the empty input if
\* and only if the credential is present and well formed, and the error of
\* the credential otherwise.
C15_BlankRefused ==
    clicks > 0 /\ OnlyWhitespace(text) =>
        /\ prompt = <<>>
        /\ PostsOfCall = {}
        /\ pc # "requests.post"
        /\ analysis_result = <<>>
        /\ Len(errors) = 1
        /\ errors = <<NoTextExtracted>>
              <=> /\ session_state.openai_api_key # <<>>
                  /\ startswith(session_state.openai_api_key, <<"s","k","-">>)
                  /\ Len(session_state.openai_api_key) >= 20
        /\ session_state.openai_api_key = <<>> => errors = <<PleaseEnterKey>>

\* a whitespace-only text refused as empty input under a well-formed
\* credential, after an analyse action that posted its request
C15_Witness ==
    /\ clicks = 2
    /\ text = <<" ","\n"," ">>
    /\ session_state.openai_api_key = <<"s","k","-","a","b","c","d","e","f","g","h","i","j","k","l","m","n","o","p","q","r","s","t","u">>
    /\ errors = <<NoTextExtracted>>
    /\ Len(posts) = 1
    /\ prompt = <<>>

(***************************************************************************)
(* C16                                                                     *)
(***************************************************************************)
\* C16: analyze_health_report returns a result only when the text is not
\* blank and the upstream call returned status 200 with a parsable response;
\* the result then holds the answer of the response, the language asked for
\* and the length and page count of the text.  On every other path (missing
\* or malformed credential, blank text, status other than 200, transport
\* error, malformed body) it returns no result.
C16_ResultOnlyOnSuccess ==
    analysis_result # <<>> =>
        /\ ~OnlyWhitespace(text)
        /\ session_state.openai_api_key # <<>>
        /\ startswith(session_state.openai_api_key, <<"s","k","-">>)
        /\ response # <<>>
        /\ ~response[1].raised
        /\ response[1].status_code = 200
        /\ response[1].body.json
        /\ response[1].body.choices # <<>>
        /\ analysis_result[1].analysis = response[1].body.choices[1]
        /\ analysis_result[1].language = prompt[1].language
        /\ analysis_result[1].extracted_text_length = Len(text)
        /\ analysis_result[1].pages_analyzed >= 1

\* a result for a text of two pages, returned by the second analyse action
\* after the first one failed upstream
C16_Witness ==
    /\ clicks = 2
    /\ Len(posts) = 2
    /\ analysis_result # <<>>
    /\ analysis_result[1].pages_analyzed = 2
    /\ analysis_result[1].analysis = <<"S","U","M","M","A","R","Y","\n","R","e","s","t"," ","w","e","l","l",".">>

(***************************************************************************)
(* C17                                                                     *)
(***************************************************************************)
\* C17: each analyse action issues at most one upstream request and at most
\* one request is in flight at any time; a request is issued only in the step
\* that begins a new analyse action, one request at a time, so after a
\* failure nothing is retried or queued.
C17_AtMostOneRequest ==
    /\ [](/\ \A n \in 1..clicks : Cardinality({i \in DOMAIN posts : posts[i].click = n}) <= 1
          /\ in_flight \in {0, 1}
          /\ (in_flight = 1 <=> pc = "requests.post"))
    /\ [][posts' # posts =>
            /\ clicks' = clicks + 1
            /\ posts' = Append(posts, posts'[Len(posts')])
            /\ posts'[Len(posts')].click = clicks']_vars

\* both analyse actions posted one request and both failed, the second with
\* a transport error or an unreadable body; nothing is in flight
C17_Witness ==
    /\ clicks = 2
    /\ Len(posts) = 2
    /\ posts[1].click = 1 /\ posts[2].click = 2
    /\ errors = <<ErrorAnalyzing>>
    /\ analysis_result = <<>>
    /\ in_flight = 0

(***************************************************************************)
(* extract_text_from_pdf.  A file is what pdfplumber makes of it: whether  *)
(* it opens, and its pages; a page is the text extract_text() returns      *)
(* (None and '' are both <<>>), the tables extract_tables() returns (a     *)
(* table is a list of rows, a row a list of cells, an empty cell <<>>),    *)
(* and which of the two calls raises, if any.                              *)
(***************************************************************************)
MaxPages == 3

PagePool ==
    { [text |-> <<"H","b"," ","1","3">>, tables |-> <<>>, raises |-> "no"],
      [text |-> <<"O","K">>,
       tables |-> << << <<<<"N","a">>, <<"1","4","0">>>>, << <<>>, <<>> >>, <<<<"K">>, <<>> >> >> >>,
       raises |-> "no"],
      [text |-> <<" ">>, tables |-> << << <<<<"Z","n">>, <<"9">>>> >> >>, raises |-> "extract_tables"],
      [text |-> <<>>, tables |-> <<>>, raises |-> "no"],
      [text |-> <<"L","D","L"," ","1","0","0">>, tables |-> <<>>, raises |-> "extract_text"],
      [text |-> <<"H","D","L"," ","5","0">>, tables |-> << << <<<<"F","e">>, <<"6","0">>>> >> >>, raises |-> "extract_tables"] }

PdfFiles ==
    {[opens |-> TRUE, pages |-> ps] : ps \in UNION {[1..n -> PagePool] : n \in 0..MaxPages}}
    \cup {[opens |-> FALSE, pages |-> <<>>]}

ErrorExtracting == "Error extracting text from PDF"

\* str(n) of a natural number
RECURSIVE str_int(_)
str_int(n) ==
    LET digit == <<"0","1","2","3","4","5","6","7","8","9">>[(n % 10) + 1]
    IN  IF n < 10 THEN <<digit>> ELSE str_int(n \div 10) \o <<digit>>

\* if page_text and page_text.strip()
HasProse(page) == page.text # <<>> /\ strip(page.text) # <<>>

\* f"\n--- Page {page_num + 1} ---\n", page_num counted from 0
PageMarker(page_num) == <<"\n","-","-","-"," ","P","a","g","e"," ">> \o str_int(page_num + 1) \o <<" ","-","-","-","\n">>

\* if row and any(cell for cell in row if cell)
RowKept(row) == row # <<>> /\ \E c \in DOMAIN row : row[c] # <<>>

\* " | ".join(str(cell) if cell else "" for cell in row)
RowText(row) == join_with(<<" ","|"," ">>, row)

\* the rows of a table, each kept row followed by a line break
RECURSIVE RowsText(_)
RowsText(table) ==
    IF table = <<>> THEN <<>>
    ELSE (IF RowKept(Head(table)) THEN RowText(Head(table)) \o <<"\n">> ELSE <<>>)
         \o RowsText(Tail(table))

\* the tables from the table_num-th (counted from 0) on
RECURSIVE TablesFrom(_, _)
TablesFrom(tables, table_num) ==
    IF table_num >= Len(tables) THEN <<>>
    ELSE <<"T","a","b","l","e"," ">> \o str_int(table_num + 1) \o <<":","\n">>
         \o RowsText(tables[table_num + 1]) \o <<"\n">>
         \o TablesFrom(tables, table_num + 1)

\* if tables: the heading and the tables
TablesText(tables) ==
    IF tables = <<>> THEN <<>>
    ELSE <<"\n","-","-","-"," ","T","a","b","l","e","s"," ","o","n"," ","t","h","i","s"," ","p","a","g","e"," ","-","-","-","\n">> \o TablesFrom(tables, 0)

\* what one turn of the loop over the pages adds to extracted_text
PageText(page, page_num) ==
    IF HasProse(page)
    THEN PageMarker(page_num) \o page.text \o <<"\n">> \o TablesText(page.tables)
    ELSE <<>>

\* the turn of the loop for this page raises: extract_text does, or
\* extract_tables does, which is called for a page with prose only
PageRaises(page) ==
    \/ page.raises = "extract_text"
    \/ page.raises = "extract_tables" /\ HasProse(page)

\* extracted_text after the pages from the page_num-th (counted from 0) on
RECURSIVE PagesFrom(_, _)
PagesFrom(pages, page_num) ==
    IF page_num >= Len(pages) THEN <<>>
    ELSE PageText(pages[page_num + 1], page_num) \o PagesFrom(pages, page_num + 1)

\* extract_text_from_pdf returning what it had collected when a page raised
extract_text_from_pdf_Partial(file) ==
    IF ~file.opens THEN [text |-> <<>>, error |-> <<ErrorExtracting>>]
    ELSE LET raising == Leftmost({n \in DOMAIN file.pages : PageRaises(file.pages[n])})
         IN  IF raising = 0
             THEN [text |-> strip(PagesFrom(file.pages, 0)), error |-> <<>>]
             ELSE [text  |-> strip(PagesFrom(SubSeq(file.pages, 1, raising - 1), 0)),
                   error |-> <<ErrorExtracting>>]

\* the value returned and the message shown: the except clause returns ""
extract_text_from_pdf(file) ==
    IF ~file.opens \/ \E n \in DOMAIN file.pages : PageRaises(file.pages[n])
    THEN [text |-> <<>>, error |-> <<ErrorExtracting>>]
    ELSE [text |-> strip(PagesFrom(file.pages, 0)), error |-> <<>>]

InitExtraction ==
    /\ pc = "extract_text_from_pdf"
    /\ session_state = [openai_api_key |-> <<>>, show_preview |-> FALSE]
    /\ calls = <<>>
    /\ clicks = 0 /\ prompt = <<>> /\ posts = <<>> /\ in_flight = 0
    /\ response = <<>> /\ analysis_result = <<>> /\ errors = <<>>
    /\ reruns = 0 /\ extracted_text = <<>> /\ download = <<>> /\ preview = <<>>
    /\ uploaded_file \in {<<f>> : f \in PdfFiles}
    /\ api_key_input = <<>> /\ version = <<>> /\ returned = <<>>
    /\ analysis_text = <<>>
    /\ formatted = <<>>
    /\ content_lines = <<>>
    /\ html_content = <<>>
    /\ text = <<>>
    /\ highlighted = <<>>

ExtractTextFromPdf ==
    /\ pc = "extract_text_from_pdf"
    /\ extracted_text' = extract_text_from_pdf(uploaded_file[1]).text
    /\ errors' = extract_text_from_pdf(uploaded_file[1]).error
    /\ pc' = "done"
    /\ UNCHANGED <<analysis_text, formatted, content_lines, html_content, text, highlighted,
                   session_state, calls, clicks, prompt, posts, in_flight, response,
                   analysis_result, reruns, uploaded_file, download, preview>>
    /\ UNCHANGED <<api_key_input, setup_vars>>

NextExtraction == ExtractTextFromPdf

SpecExtraction == InitExtraction /\ [][NextExtraction]_vars

\* the marker of the n-th page (counted from 1) as it stands before its text
MarkerOf(n) == <<"-","-","-"," ","P","a","g","e"," ">> \o str_int(n) \o <<" ","-","-","-","\n">>

\* the pages whose text is included: those with prose
IncludedPages(file) == {n \in DOMAIN file.pages : HasProse(file.pages[n])}

\* where the text of the n-th page ends in the output: before the marker of
\* the next included page, or at the end
EndOfPage(file, n, out) ==
    LET later == {m \in IncludedPages(file) : m > n}
    IN  IF later = {} THEN Len(out) + 1
        ELSE Find(out, MarkerOf(Leftmost(later)))

\* the library raised while the file was read
LibraryRaised(file) ==
    \/ ~file.opens
    \/ \E n \in DOMAIN file.pages :
          \/ file.pages[n].raises = "extract_text"
          \/ file.pages[n].raises = "extract_tables" /\ HasProse(file.pages[n])

(***************************************************************************)
(* C20                                                                     *)
(***************************************************************************)
\* C20: the text of the pages is concatenated in page order, each included
\* page preceded by its page marker; the pipe-delimited rows of a page's
\* tables come after that page's prose and before the marker of the next
\* page; if the library raises on any page the result is the empty string,
\* whatever was collected from the pages before.  (The result is stripped,
\* so a row is looked for without the blanks at its end.)
C20_PagesInOrder ==
    pc = "done" =>
        LET file == uploaded_file[1]
            out == extracted_text
        IN  IF LibraryRaised(file)
            THEN out = <<>> /\ errors = <<ErrorExtracting>>
            ELSE /\ errors = <<>>
                 /\ CountFrom(out, <<"-","-","-"," ","P","a","g","e">>, 1) = Cardinality(IncludedPages(file))
                 /\ \A n \in IncludedPages(file) :
                       LET at == Find(out, MarkerOf(n))
                           prose == at + Len(MarkerOf(n))
                           page == file.pages[n]
                       IN  /\ at > 0
                           /\ at < EndOfPage(file, n, out)
                           /\ StartsWithAt(out, prose, page.text)
                           /\ \A t \in DOMAIN page.tables : \A r \in DOMAIN page.tables[t] :
                                 RowKept(page.tables[t][r]) =>
                                    \E p \in (prose + Len(page.text))..(EndOfPage(file, n, out) - 1) :
                                        /\ StartsWithAt(out, p, rstrip(RowText(page.tables[t][r])))
                                        /\ p + Len(rstrip(RowText(page.tables[t][r])))
                                              <= EndOfPage(file, n, out)

\* three pages: prose, a page without prose, prose with a table; the first
\* and the third are included under the markers 1 and 3, the rows after the
\* prose of the third
C20_Witness ==
    /\ pc = "done"
    /\ Len(uploaded_file[1].pages) = 3
    /\ IncludedPages(uploaded_file[1]) = {1, 3}
    /\ uploaded_file[1].pages[3].tables # <<>>
    /\ errors = <<>>
    /\ Contains(<<"-","-","-"," ","P","a","g","e"," ","3"," ","-","-","-","\n","O","K","\n">>, extracted_text)
    /\ Contains(<<"N","a"," ","|"," ","1","4","0","\n","K"," ","|"," ">>, extracted_text)
    /\ ~Contains(<<"-","-","-"," ","P","a","g","e"," ","2">>, extracted_text)

(***************************************************************************)
(* create_html_report and the run of main.  Streamlit runs main from the   *)
(* top at every interaction of the user; what main holds in local          *)
(* variables starts empty in each run, st.session_state lasts.             *)
(***************************************************************************)
MaxReruns == 2

\* the files of the runs: no pages, or one page of the pool, or unreadable
MainFiles == {f \in PdfFiles : Len(f.pages) <= 1}

\* st.text_input("Patient Name (Optional)", value="Patient")
PatientName == <<"P","a","t","i","e","n","t">>

InvalidKeyFormatSidebar == "Invalid API key format. Should start with 'sk-'"

CouldNotExtract == "Could not extract text from PDF."

ErrorCreatingReport == "Error creating HTML report"

\* the answer is a str: it has the method split
IsStr(v) == v # JsonNull

\* format_analysis_for_html with its try and except: for a str nothing in
\* the try block raises; for anything else analysis_text.split('\n') raises,
\* and so does analysis_text.split('\n\n') in the except block
FormatterCall(v) ==
    IF IsStr(v)
    THEN [raised |-> FALSE, value |-> format_analysis_for_html(v)]
    ELSE [raised |-> TRUE, value |-> <<>>]

\* str.replace of one character by another
replace(s, old, new) == [i \in DOMAIN s |-> IF s[i] = old THEN new ELSE s[i]]

\* analysis_data['timestamp'].replace(' ', '_').replace(':', '-')
ReportId(timestamp) == replace(replace(timestamp, " ", "_"), ":", "-")

\* create_html_report offering the paragraph fallback of the formatter when
\* the formatter raises
create_html_report_Fallback(analysis_data, patient_name) ==
    [document |-> <<[patient_name  |-> patient_name,
                     timestamp     |-> analysis_data.timestamp,
                     language      |-> analysis_data.language,
                     analysis_text |-> IF FormatterCall(analysis_data.analysis).raised
                                       THEN <<fallback_formatting(<<>>)>>
                                       ELSE FormatterCall(analysis_data.analysis).value,
                     report_id     |-> ReportId(analysis_data.timestamp)]>>,
     error    |-> <<>>]

\* create_html_report: the document (what the template interpolates), or
\* None and the message of the except clause
create_html_report(analysis_data, patient_name) ==
    IF FormatterCall(analysis_data.analysis).raised
    THEN [document |-> <<>>, error |-> <<ErrorCreatingReport>>]
    ELSE [document |-> <<[patient_name  |-> patient_name,
                          timestamp     |-> analysis_data.timestamp,
                          language      |-> analysis_data.language,
                          analysis_text |-> FormatterCall(analysis_data.analysis).value,
                          report_id     |-> ReportId(analysis_data.timestamp)]>>,
          error    |-> <<>>]

InitMain ==
    /\ pc = "main"
    /\ AppIdle
    /\ analysis_text = <<>>
    /\ formatted = <<>>
    /\ content_lines = <<>>
    /\ html_content = <<>>
    /\ text = <<>>
    /\ highlighted = <<>>

\* a run begins: the sidebar and the file uploader
Rerun ==
    /\ pc = "main"
    /\ reruns < MaxReruns
    /\ reruns' = reruns + 1
    /\ \E api_key \in CredentialInputs, file \in {NoFile} \cup {<<f>> : f \in MainFiles} :
          /\ api_key_input' = api_key
          /\ session_state' = [session_state EXCEPT !.openai_api_key = StoredCredential(api_key)]
          /\ errors' = IF api_key # <<>> /\ StoredCredential(api_key) = <<>>
                       THEN <<InvalidKeyFormatSidebar>> ELSE <<>>
          /\ uploaded_file' = file
          /\ pc' = IF file = NoFile THEN "main" ELSE "main.extract_text_from_pdf"
    /\ extracted_text' = <<>>
    /\ prompt' = <<>>
    /\ response' = <<>>
    /\ analysis_result' = <<>>
    /\ html_content' = <<>>
    /\ download' = <<>>
    /\ preview' = <<>>
    /\ UNCHANGED <<analysis_text, formatted, content_lines, text, highlighted, calls,
                   clicks, posts, in_flight>>
    /\ UNCHANGED setup_vars

\* extracted_text = analyzer.extract_text_from_pdf(uploaded_file), and the
\* test of the text
MainExtract ==
    /\ pc = "main.extract_text_from_pdf"
    /\ extracted_text' = extract_text_from_pdf(uploaded_file[1]).text
    /\ IF BlankText(extract_text_from_pdf(uploaded_file[1]).text)
       THEN /\ errors' = errors \o extract_text_from_pdf(uploaded_file[1]).error
                                \o <<CouldNotExtract>>
            /\ pc' = "main"
       ELSE /\ errors' = errors \o extract_text_from_pdf(uploaded_file[1]).error
            /\ pc' = "main.analyze_button"
    /\ UNCHANGED <<analysis_text, formatted, content_lines, html_content, text, highlighted,
                   session_state, calls, clicks, prompt, posts, in_flight, response,
                   analysis_result, reruns, uploaded_file, download, preview>>
    /\ UNCHANGED <<api_key_input, setup_vars>>

\* the analyse button; pressed, with a credential stored, it calls
\* analyze_health_report, which runs up to and with requests.post
AnalyzeButton ==
    /\ pc = "main.analyze_button"
    /\ \E pressed \in BOOLEAN, language \in Languages :
          IF ~pressed
          THEN /\ pc' = "main"
               /\ UNCHANGED <<clicks, errors, text, prompt, posts, in_flight>>
          ELSE /\ clicks' = clicks + 1
               /\ IF session_state.openai_api_key = <<>>
                  THEN /\ errors' = errors \o <<PleaseEnterKey>>
                       /\ pc' = "main"
                       /\ UNCHANGED <<text, prompt, posts, in_flight>>
                  ELSE /\ text' = extracted_text
                       /\ errors' = errors \o Refusal(session_state.openai_api_key, extracted_text)
                       /\ IF Refusal(session_state.openai_api_key, extracted_text) = <<>>
                          THEN /\ prompt' = <<[language |-> language, text |-> extracted_text]>>
                               /\ posts' = Append(posts,
                                                  [click         |-> clicks + 1,
                                                   authorization |-> session_state.openai_api_key,
                                                   content       |-> extracted_text])
                               /\ in_flight' = in_flight + 1
                               /\ pc' = "main.requests.post"
                          ELSE /\ pc' = "main"
                               /\ UNCHANGED <<prompt, posts, in_flight>>
    /\ UNCHANGED <<analysis_text, formatted, content_lines, html_content, highlighted,
                   session_state, calls, response, analysis_result, reruns, uploaded_file,
                   extracted_text, download, preview>>
    /\ UNCHANGED <<api_key_input, setup_vars>>

\* requests.post is over: analyze_health_report returns, and main tests
\* what it returned
MainReceive ==
    /\ pc = "main.requests.post"
    /\ \E r \in UpstreamResponses, now \in Timestamps :
          /\ response' = <<r>>
          /\ analysis_result' = ResultOf(r, prompt[1], now)
          /\ errors' = errors \o ErrorOf(r)
          /\ pc' = IF ResultOf(r, prompt[1], now) = <<>> THEN "main"
                   ELSE "main.create_html_report"
    /\ in_flight' = in_flight - 1
    /\ UNCHANGED <<analysis_text, formatted, content_lines, html_content, text, highlighted,
                   session_state, calls, clicks, prompt, posts, reruns, uploaded_file,
                   extracted_text, download, preview>>
    /\ UNCHANGED <<api_key_input, setup_vars>>

\* html_content = analyzer.create_html_report(analysis_result, patient_name),
\* and the test of the document
CreateHtmlReport ==
    /\ pc = "main.create_html_report"
    /\ html_content' = create_html_report(analysis_result[1], PatientName).document
    /\ errors' = errors \o create_html_report(analysis_result[1], PatientName).error
    /\ calls' = Append(calls, [input   |-> analysis_result[1].analysis,
                               session |-> session_state,
                               output  |-> FormatterCall(analysis_result[1].analysis).value])
    /\ pc' = IF create_html_report(analysis_result[1], PatientName).document = <<>>
             THEN "main" ELSE "main.download_button"
    /\ UNCHANGED <<analysis_text, formatted, content_lines, text, highlighted, session_state,
                   clicks, prompt, posts, in_flight, response, analysis_result, reruns,
                   uploaded_file, extracted_text, download, preview>>
    /\ UNCHANGED <<api_key_input, setup_vars>>

\* the download button with the document as its data, the preview button,
\* and the preview if the flag is set
OfferDownload ==
    /\ pc = "main.download_button"
    /\ download' = html_content
    /\ \E pressed \in BOOLEAN :
          /\ session_state' = [session_state EXCEPT
                                  !.show_preview = session_state.show_preview \/ pressed]
          /\ preview' = IF session_state.show_preview \/ pressed THEN html_content ELSE <<>>
    /\ pc' = "main"
    /\ UNCHANGED <<analysis_text, formatted, content_lines, html_content, text, highlighted,
                   calls, analysis_vars, reruns, uploaded_file, extracted_text>>
    /\ UNCHANGED <<api_key_input, setup_vars>>

NextMain ==
    Rerun \/ MainExtract \/ AnalyzeButton \/ MainReceive \/ CreateHtmlReport \/ OfferDownload

SpecMain == InitMain /\ [][NextMain]_vars

\* the run has got past the test of the extracted text
PastExtraction ==
    pc \in {"main.analyze_button", "main.requests.post", "main.create_html_report",
            "main.download_button"}

(***************************************************************************)
(* C19                                                                     *)
(***************************************************************************)
\* C19: in a run of main the upstream request is issued only after the
\* extraction returned non-blank text and with a non-empty credential stored;
\* the report is rendered only after a successful analysis; the download is
\* offered only after the rendering returned a document.  If the extraction
\* fails or returns blank text, the run makes no request and produces no
\* report.
C19_PipelineOrder ==
    /\ [](/\ PastExtraction => ~OnlyWhitespace(extracted_text)
          /\ pc = "main.requests.post" => session_state.openai_api_key # <<>>
          /\ pc \in {"main.create_html_report", "main.download_button"} =>
                /\ analysis_result # <<>>
                /\ response # <<>> /\ ~response[1].raised /\ response[1].status_code = 200
          /\ html_content # <<>> => analysis_result # <<>>
          /\ download # <<>> => html_content # <<>> /\ download = html_content
          /\ preview # <<>> => download # <<>>
          /\ uploaded_file # NoFile /\ pc = "main" /\ OnlyWhitespace(extracted_text) =>
                /\ in_flight = 0
                /\ analysis_result = <<>>
                /\ html_content = <<>>
                /\ download = <<>>)
    /\ [][/\ posts' # posts =>
                /\ pc = "main.analyze_button"
                /\ ~OnlyWhitespace(extracted_text)
                /\ session_state.openai_api_key # <<>>
                /\ posts'[Len(posts')].content = extracted_text
          /\ calls' # calls =>
                /\ pc = "main.create_html_report"
                /\ analysis_result # <<>>
                /\ response[1].status_code = 200
          /\ download' # download /\ download' # <<>> =>
                /\ pc = "main.download_button"
                /\ html_content # <<>>]_vars

\* the second run went all the way: text extracted, request posted, result
\* returned, report rendered, download offered; the first run posted nothing
C19_Witness ==
    /\ reruns = 2
    /\ pc = "main"
    /\ Len(posts) = 1
    /\ Len(calls) = 1
    /\ ~OnlyWhitespace(extracted_text)
    /\ analysis_result # <<>>
    /\ html_content # <<>>
    /\ download = html_content

\* the run is over and its analysis returned an answer that the formatter
\* cannot split: formatting raised in this run
RenderingRaised ==
    /\ pc = "main"
    /\ analysis_result # <<>>
    /\ ~IsStr(analysis_result[1].analysis)

(***************************************************************************)
(* C18                                                                     *)
(***************************************************************************)
\* C18: an exception raised while the report is formatted or templated is
\* caught and replaced by a plain-paragraph fallback document: both
\* format_analysis_for_html and create_html_report still return a document,
\* and the download is still offered.
C18_FallbackDocument ==
    RenderingRaised =>
        /\ ~FormatterCall(analysis_result[1].analysis).raised
        /\ html_content # <<>>
        /\ download # <<>>

\* the string begins with the prefix and is longer than twenty characters
HasPrefixAndLength(k) ==
    /\ Len(k) > 20
    /\ k[1] = "s" /\ k[2] = "k" /\ k[3] = "-"

(***************************************************************************)
(* C21                                                                     *)
(***************************************************************************)
\* C21: after any sequence of sidebar inputs the credential held in
\* st.session_state is the empty string or a string that begins with the
\* prefix and is longer than the minimum length; an input that fails the
\* test of prefix and length is never stored, and the run that reads it
\* leaves the stored credential empty, whatever was stored before.
C21_StoredCredentialInvariant ==
    /\ \/ session_state.openai_api_key = <<>>
       \/ HasPrefixAndLength(session_state.openai_api_key)
    /\ ~HasPrefixAndLength(api_key_input) => session_state.openai_api_key = <<>>

\* a report was formatted while a credential was stored, and then a
\* credential too short was typed: nothing is stored any more
C21_Witness ==
    /\ calls # <<>>
    /\ HasPrefixAndLength(calls[1].session.openai_api_key)
    /\ api_key_input = <<"s","k","-","s","h","o","r","t">>
    /\ session_state.openai_api_key = <<>>

(***************************************************************************)
(* _format_content_to_html applied to lines that are bullets, sub-headings *)
(* and paragraphs, and to lines that pass more than one of the tests.      *)
(***************************************************************************)
MaxBlockLines == 3

\* a bullet ending with a colon, a bullet in upper case, a line ending with
\* a colon, a line in upper case with digits, a sentence, a colon inside
\* the line, a line without a cased character, a sub-heading between
\* blanks, a blank line
BlockLinePool ==
    { <<"-"," ","N","O","T","E",":">>, <<"*"," ","A","V","O","I","D"," ","S","U","G","A","R">>, <<"D","i","e","t",":">>, <<"H","B"," ","1","3">>, <<"R","e","s","t"," ","w","e","l","l",".">>, <<"T","a","k","e",":"," ","r","e","s","t">>,
      <<"1","2","3">>, <<" ","N","O","T","E",":"," ">>, <<>> }

InitBlocks ==
    /\ pc = "_format_content_to_html"
    /\ AppIdle
    /\ content_lines \in UNION {[1..n -> BlockLinePool] : n \in 0..MaxBlockLines}
    /\ html_content = <<>>
    /\ analysis_text = <<>>
    /\ formatted = <<>>
    /\ text = <<>>
    /\ highlighted = <<>>

SpecBlocks == InitBlocks /\ [][NextContent]_vars

\* the line begins with one of the three bullet markers
BeginsWithMarker(line) == line # <<>> /\ line[1] \in {"-", "U+2022", "*"}

\* the line has a letter and no lower-case letter
EntirelyUpperCase(line) ==
    /\ {i \in DOMAIN line : line[i] \in Uppercase} # {}
    /\ {i \in DOMAIN line : line[i] \in Lowercase} = {}

EndsWithColon(line) == line # <<>> /\ line[Len(line)] = ":"

\* the sub-headings and paragraphs of a content in order, each with its tag
\* and its body
RECURSIVE BlocksOf(_)
BlocksOf(html) ==
    LET o == Leftmost({i \in DOMAIN html : html[i] \in {SubHeadingOpen, ParagraphOpen}})
        c == Leftmost({i \in DOMAIN html : i > o /\ html[i] \in {SubHeadingClose, ParagraphClose}})
    IN  IF o = 0 \/ c = 0 THEN <<>>
        ELSE <<[tag |-> html[o], close |-> html[c], body |-> SubSeq(html, o + 1, c - 1)]>>
             \o BlocksOf(SubSeq(html, c + 1, Len(html)))

\* the block a line that is no bullet is to become
ExpectedBlock(line) ==
    IF EntirelyUpperCase(line) \/ EndsWithColon(line)
    THEN [tag |-> SubHeadingOpen, close |-> SubHeadingClose,
          body |-> _highlight_medical_values(line)]
    ELSE [tag |-> ParagraphOpen, close |-> ParagraphClose,
          body |-> _highlight_medical_values(line)]

\* the lines that are no bullets, in order
PlainLines(ls) == SelectSeq(ls, LAMBDA l : ~BeginsWithMarker(l))

(***************************************************************************)
(* C22                                                                     *)
(***************************************************************************)
\* C22: every content line that is no bullet becomes exactly one block, a
\* sub-heading if the line is entirely upper case or ends with ':', a
\* paragraph otherwise; the bullet test comes first, so a line that begins
\* with a bullet marker and also ends with ':' or is upper case becomes a
\* list item and no sub-heading.  (Lines are the non-blank lines, stripped.)
C22_OneBlockPerLine ==
    pc = "done" =>
        /\ BlocksOf(html_content)
             = [i \in DOMAIN PlainLines(NonBlank(content_lines)) |->
                    ExpectedBlock(PlainLines(NonBlank(content_lines))[i])]
        /\ Len(SelectSeq(html_content, LAMBDA t : t = ItemOpen))
             = Len(NonBlank(content_lines)) - Len(PlainLines(NonBlank(content_lines)))
        /\ Len(SelectSeq(html_content,
                         LAMBDA t : t \in {ItemOpen, SubHeadingOpen, ParagraphOpen}))
             = Len(NonBlank(content_lines))

\* a bullet ending with a colon between a sub-heading and a paragraph: two
\* blocks and one list item
C22_Witness ==
    /\ pc = "done"
    /\ content_lines = << <<" ","N","O","T","E",":"," ">>, <<"-"," ","N","O","T","E",":">>, <<"T","a","k","e",":"," ","r","e","s","t">> >>
    /\ Len(BlocksOf(html_content)) = 2
    /\ BlocksOf(html_content)[1].tag = SubHeadingOpen
    /\ BlocksOf(html_content)[2].tag = ParagraphOpen
    /\ Len(SelectSeq(html_content, LAMBDA t : t = ItemOpen)) = 1

\* st.session_state.show_preview starts unset, is set only where main reads
\* the preview button, and is never unset again
PreviewFlagMonotonic ==
    /\ (pc = "main" /\ reruns = 0 => ~session_state.show_preview)
    /\ [][/\ session_state.show_preview => session_state'.show_preview
          /\ session_state'.show_preview # session_state.show_preview =>
                pc = "main.download_button"]_vars

\* a run is over in which analyze_health_report returned a result
AnalysisSucceeded == pc = "main" /\ reruns > 0 /\ analysis_result # <<>>

(***************************************************************************)
(* C23                                                                     *)
(***************************************************************************)
\* C23: the preview flag of the session state is monotonic: false at first,
\* set to true only by a preview request, and never reset by a later action
\* of the session; so in every later run in which an analysis succeeds the
\* preview is rendered without a new preview request.
C23_PreviewInEverySuccessfulRun ==
    /\ PreviewFlagMonotonic
    /\ [](AnalysisSucceeded /\ session_state.show_preview => preview # <<>>)

(***************************************************************************)
(* The formatter applied to answers whose headings carry text of their     *)
(* own, are numbered, or are both numbered and named by a keyword.         *)
(***************************************************************************)
MaxHeadingLines == 4

\* a keyword heading with a sentence on the same line, a numbered heading
\* that holds a keyword among other words, a bullet and a paragraph
HeadingLinePool ==
    { <<"S","U","M","M","A","R","Y",":"," ","a","l","l"," ","f","i","n","e">>, <<"2","."," ","D","i","e","t"," ","s","u","m","m","a","r","y">>, <<"-"," ","W","a","l","k"," ","d","a","i","l","y">>, <<"R","e","s","t"," ","w","e","l","l",".">> }

HeadingTexts ==
    {join_with(<<"\n">>, ls) : ls \in UNION {[1..n -> HeadingLinePool] : n \in 0..MaxHeadingLines}}

InitHeadings ==
    /\ pc = "format_analysis_for_html"
    /\ AppIdle
    /\ analysis_text \in HeadingTexts
    /\ formatted = <<>>
    /\ content_lines = <<>>
    /\ html_content = <<>>
    /\ text = <<>>
    /\ highlighted = <<>>

SpecHeadings == InitHeadings /\ [][Next]_vars

\* the index of the heading after the heading at h (one more than the
\* length when it is the last)
NextHeading(ls, h) ==
    LET later == {i \in HeadingIndexes(ls) : i > h}
    IN  IF later = {} THEN Len(ls) + 1 ELSE CHOOSE i \in later : \A j \in later : i <= j

\* the lines between the heading at h and the next heading, in source order
LinesUnder(ls, h) == SubSeq(ls, h + 1, NextHeading(ls, h) - 1)

\* the number of list items, sub-headings and paragraphs in all the blocks
RECURSIVE ElementCount(_)
ElementCount(out) ==
    IF out = <<>> THEN 0
    ELSE Len(ElementTags(Head(out).content)) + ElementCount(Tail(out))

(***************************************************************************)
(* C24                                                                     *)
(***************************************************************************)
\* C24: whenever at least one section block is emitted, every non-blank line
\* that is no heading and follows the first heading appears in exactly one
\* block, the block of the nearest heading before it, and the lines keep
\* their source order inside the block; none is dropped or duplicated.
C24_ContentConserved ==
    Formatted /\ ~IsGeneralFallback(formatted) =>
        /\ Len(formatted) = Len(Ascending(HeadingsWithContent(SeenLines(analysis_text))))
        /\ \A b \in DOMAIN formatted :
              formatted[b].content
                = _format_content_to_html(
                      LinesUnder(SeenLines(analysis_text),
                                 Ascending(HeadingsWithContent(SeenLines(analysis_text)))[b]))
        /\ ElementCount(formatted)
             = Len(ContentAfterFirstHeading(SeenLines(analysis_text)))

\* two blocks, the first with the bullet and the second with the paragraph
C24_Witness ==
    /\ Formatted
    /\ analysis_text = <<"S","U","M","M","A","R","Y",":"," ","a","l","l"," ","f","i","n","e","\n","-"," ","W","a","l","k"," ","d","a","i","l","y","\n","2","."," ","D","i","e","t"," ","s","u","m","m","a","r","y","\n","R","e","s","t"," ","w","e","l","l",".">>
    /\ Len(formatted) = 2
    /\ Contains(<<ItemOpen>>, formatted[1].content)
    /\ ~Contains(<<ParagraphOpen>>, formatted[1].content)
    /\ Contains(<<ParagraphOpen>>, formatted[2].content)
    /\ ~Contains(<<ItemOpen>>, formatted[2].content)

(***************************************************************************)
(* C25                                                                     *)
(***************************************************************************)
\* C25: a heading followed by no content line before the next heading or
\* the end of the input emits no section block: the blocks emitted are as
\* many as the heading lines with at least one content line before the
\* next heading, and every emitted block has content.  (When no block is
\* emitted the output is the general section of the fallback.)
C25_NoBlockWithoutContent ==
    Formatted =>
        /\ IsGeneralFallback(formatted)
              <=> Cardinality(HeadingsWithContent(SeenLines(analysis_text))) = 0
        /\ ~IsGeneralFallback(formatted) =>
              /\ Len(formatted) = Cardinality(HeadingsWithContent(SeenLines(analysis_text)))
              /\ \A b \in DOMAIN formatted : ElementTags(formatted[b].content) # <<>>

\* three headings, the first and the last without content: one block
C25_Witness ==
    /\ Formatted
    /\ analysis_text = <<"S","U","M","M","A","R","Y",":"," ","a","l","l"," ","f","i","n","e","\n","2","."," ","D","i","e","t"," ","s","u","m","m","a","r","y","\n","R","e","s","t"," ","w","e","l","l",".","\n","S","U","M","M","A","R","Y",":"," ","a","l","l"," ","f","i","n","e">>
    /\ Len(formatted) = 1
    /\ formatted[1].class = "general"
    /\ formatted[1].title = <<"D","i","e","t"," ","S","u","m","m","a","r","y">>

\* the place after the leftmost keyword, or word of a keyword, of the
\* section the line is taken for; 0 when the line holds none
KeywordEnd(line) ==
    LET key == keyword_section(line)
        words == {key} \cup {split_words(key)[w] : w \in DOMAIN split_words(key)}
        at == {i \in DOMAIN line : \E w \in words : StartsWithAt(upper(line), i, w)}
    IN  IF key = None \/ at = {} THEN 0
        ELSE CHOOSE e \in (Leftmost(at) + 1)..(Len(line) + 1) :
                /\ \E w \in words : /\ StartsWithAt(upper(line), Leftmost(at), w)
                                    /\ e = Leftmost(at) + Len(w)
                /\ \A w \in words : StartsWithAt(upper(line), Leftmost(at), w)
                                        => Leftmost(at) + Len(w) <= e

\* what follows the number of a numbered heading, or the keyword (and its
\* colon) of a keyword heading
HeadingRemainder(line) ==
    IF numbered_title(line) # <<>> THEN strip(numbered_title(line))
    ELSE IF KeywordEnd(line) = 0 THEN <<>>
    ELSE LET rest == strip(SubSeq(line, KeywordEnd(line), Len(line)))
         IN  IF rest # <<>> /\ rest[1] = ":" THEN strip(Tail(rest)) ELSE rest

(***************************************************************************)
(* C26                                                                     *)
(***************************************************************************)
\* C26: the text of a heading line is never added to the content of a
\* section: when at least one block is emitted, what follows the keyword or
\* the number on a heading line (the sentence after 'SUMMARY:' on the same
\* line, say) is in the content of no block, and is kept at most as the
\* title of the block of a numbered heading.
C26_HeadingTextNotContent ==
    Formatted /\ ~IsGeneralFallback(formatted) =>
        /\ \A i \in HeadingIndexes(SeenLines(analysis_text)) :
              HeadingRemainder(SeenLines(analysis_text)[i]) # <<>> =>
                  \A b \in DOMAIN formatted :
                      ~Contains(HeadingRemainder(SeenLines(analysis_text)[i]),
                                formatted[b].content)
        /\ \A b \in DOMAIN formatted :
              LET line == SeenLines(analysis_text)[
                              Ascending(HeadingsWithContent(SeenLines(analysis_text)))[b]]
              IN  numbered_title(line) = <<>> /\ HeadingRemainder(line) # <<>> =>
                      ~Contains(upper(HeadingRemainder(line)), upper(formatted[b].title))

\* a block under a keyword heading that has a sentence on its line, and a
\* block under a numbered heading that keeps its text as the title
C26_Witness ==
    /\ Formatted
    /\ analysis_text = <<"S","U","M","M","A","R","Y",":"," ","a","l","l"," ","f","i","n","e","\n","R","e","s","t"," ","w","e","l","l",".","\n","2","."," ","D","i","e","t"," ","s","u","m","m","a","r","y","\n","-"," ","W","a","l","k"," ","d","a","i","l","y">>
    /\ HeadingRemainder(SeenLines(analysis_text)[1]) = <<"a","l","l"," ","f","i","n","e">>
    /\ Len(formatted) = 2
    /\ formatted[1].title = <<"E","x","e","c","u","t","i","v","e"," ","S","u","m","m","a","r","y">>
    /\ formatted[2].title = <<"D","i","e","t"," ","S","u","m","m","a","r","y">>

(***************************************************************************)
(* The formatter applied to numbered headings that also hold a keyword.    *)
(***************************************************************************)
MaxNumberedLines == 2

\* numbered headings whose text is a keyword (in upper case, in lower case,
\* without a blank after the number), and numbered headings whose text holds
\* a keyword or a word of one among other characters
NumberedLinePool ==
    { <<"1","."," ","S","U","M","M","A","R","Y">>, <<"2","."," ","K","e","y"," ","f","i","n","d","i","n","g","s">>, <<"3","."," ","S","u","m","m","a","r","y",":">>, <<"4","."," ","D","i","e","t"," ","s","u","m","m","a","r","y">>,
      <<"5","."," ","f","o","l","l","o","w","-","u","p"," ","a","c","t","i","o","n","s">>, <<"6","."," ","F","o","l","l","o","w","-","u","p"," ","p","l","a","n">>, <<"7",".","H","E","A","L","T","H"," ","S","T","A","T","U","S">>,
      <<"8","."," ","Y","o","u","r"," ","h","e","a","l","t","h">> }

NumberedTexts ==
    {join_with(<<"\n">>, ls) :
        ls \in UNION {[1..n -> NumberedLinePool \cup {<<"-"," ","W","a","l","k"," ","d","a","i","l","y">>, <<"R","e","s","t"," ","w","e","l","l",".">>}] :
                        n \in 0..MaxNumberedLines}}

InitNumbered ==
    /\ pc = "format_analysis_for_html"
    /\ AppIdle
    /\ analysis_text \in NumberedTexts
    /\ formatted = <<>>
    /\ content_lines = <<>>
    /\ html_content = <<>>
    /\ text = <<>>
    /\ highlighted = <<>>

SpecNumbered == InitNumbered /\ [][Next]_vars

\* the line matches a keyword and the numbered pattern
KeywordAndNumbered(line) == keyword_section(line) # None /\ numbered_title(line) # <<>>

\* the keywords of section_config
EightKeywords == {section_config[n].key : n \in DOMAIN section_config}

(***************************************************************************)
(* C27                                                                     *)
(***************************************************************************)
\* C27: when a line matches both a section keyword and the numbered pattern
\* the numbered heading wins: the key of the section is the upper-cased text
\* after the number, and the block has a canonical category only if that
\* text is exactly one of the eight keywords; otherwise it has the generic
\* category and the title-cased text as its title.
C27_NumberedWins ==
    Formatted /\ ~IsGeneralFallback(formatted) =>
        \A b \in DOMAIN formatted :
            LET line == SeenLines(analysis_text)[
                            Ascending(HeadingsWithContent(SeenLines(analysis_text)))[b]]
                key == strip(upper(numbered_title(line)))
            IN  KeywordAndNumbered(line) =>
                    IF key \in EightKeywords
                    THEN \E n \in DOMAIN section_config :
                            /\ section_config[n].key = key
                            /\ formatted[b].class = section_config[n].class
                            /\ formatted[b].title = section_config[n].title
                    ELSE /\ formatted[b].class = "general"
                         /\ formatted[b].icon = "page"
                         /\ formatted[b].title = title(key)

\* 'Follow-up plan' under a number holds a word of the keyword FOLLOW-UP
\* ACTIONS and gets the generic category with its own text as the title
C27_Witness ==
    /\ Formatted
    /\ analysis_text = <<"6","."," ","F","o","l","l","o","w","-","u","p"," ","p","l","a","n","\n","R","e","s","t"," ","w","e","l","l",".">>
    /\ Len(formatted) = 1
    /\ keyword_section(SeenLines(analysis_text)[1]) = <<"F","O","L","L","O","W","-","U","P"," ","A","C","T","I","O","N","S">>
    /\ formatted[1].class = "general"
    /\ formatted[1].title = <<"F","o","l","l","o","w","-","U","p"," ","P","l","a","n">>

\* the sidebar kept what the credential field returned
SidebarAccepted == api_key_input # <<>> /\ session_state.openai_api_key = api_key_input

\* analyze_health_report would pass both of its tests of the credential on
\* what the credential field returned
AnalysisAccepts ==
    ~MissingCredential(api_key_input) /\ ~MalformedCredential(api_key_input)

(***************************************************************************)
(* C28                                                                     *)
(***************************************************************************)
\* C28: the test of the credential in the sidebar and the test in
\* analyze_health_report accept the same strings (the same prefix, the same
\* bound on the length): a credential accepted by one is never rejected by
\* the other, a credential of exactly 20 characters included.
C28_SameCredentialCheck == SidebarAccepted <=> AnalysisAccepts

(***************************************************************************)
(* analyze_health_report with a call of requests.post that comes to an end *)
(* (timeout=60): it returns a response or raises.                          *)
(***************************************************************************)
SpecAnalysisFair == SpecAnalysis /\ WF_vars(ReceiveResponse)

\* the credential has the prefix and at least twenty characters
CredentialWellFormed(k) ==
    /\ Len(k) >= 20
    /\ k[1] = "s" /\ k[2] = "k" /\ k[3] = "-"

\* the call of the last analyse action has returned
CallReturned == clicks > 0 /\ pc = "analyze_health_report"

\* the keys of the dict that analyze_health_report returns
ResultKeys ==
    {"analysis", "timestamp", "language", "pages_analyzed", "extracted_text_length"}

(***************************************************************************)
(* C29                                                                     *)
(***************************************************************************)
\* C29: analyze_health_report tests its preconditions in a fixed order (the
\* credential missing, the credential malformed, the text blank) and stops
\* at the first that fails: every refused call reports exactly one error,
\* that of the first failing test; and every call comes to an end by
\* returning a complete result or no result, an exception raised on the way
\* being reported as an error and never leaving the call.
C29_FirstFailureReported ==
    /\ [](CallReturned =>
            /\ session_state.openai_api_key = <<>> => errors = <<PleaseEnterKey>>
            /\ session_state.openai_api_key # <<>>
                  /\ ~CredentialWellFormed(session_state.openai_api_key)
                  => errors = <<InvalidKeyFormat>>
            /\ CredentialWellFormed(session_state.openai_api_key) /\ OnlyWhitespace(text)
                  => errors = <<NoTextExtracted>>
            /\ PostsOfCall = {} =>
                  /\ Len(errors) = 1
                  /\ analysis_result = <<>>
                  /\ prompt = <<>>
                  /\ response = <<>>
            /\ PostsOfCall # {} =>
                  /\ response # <<>>
                  /\ response[1].raised => errors = <<ErrorAnalyzing>>
            /\ Len(errors) <= 1
            /\ analysis_result = <<>> <=> Len(errors) = 1
            /\ analysis_result # <<>> => DOMAIN analysis_result[1] = ResultKeys)
    /\ (pc = "requests.post" ~> CallReturned)

\* the second call was refused for its credential although its text was
\* blank too, after a first call in which requests.post raised
C29_Witness ==
    /\ clicks = 2
    /\ pc = "analyze_health_report"
    /\ Len(posts) = 1
    /\ session_state.openai_api_key = <<"s","k","-","s","h","o","r","t">>
    /\ OnlyWhitespace(text)
    /\ errors = <<InvalidKeyFormat>>
    /\ analysis_result = <<>>

(***************************************************************************)
(* setup.py: check_python_version on the version of the interpreter that   *)
(* runs the script.                                                        *)
(***************************************************************************)
MaxMajor == 4

MaxMinor == 14

MaxMicro == 2

\* sys.version_info as (major, minor, micro); an interpreter that runs the
\* script knows f-strings (3.6)
Versions ==
    {v \in (3..MaxMajor) \X (0..MaxMinor) \X (0..MaxMicro) : v[1] = 3 => v[2] >= 6}

\* if version.major >= 3 and version.minor >= 8: return True, else False
check_python_version(v) == v[1] >= 3 /\ v[2] >= 8

InitSetup ==
    /\ pc = "check_python_version"
    /\ session_state = [openai_api_key |-> <<>>, show_preview |-> FALSE]
    /\ calls = <<>>
    /\ clicks = 0
    /\ prompt = <<>>
    /\ posts = <<>>
    /\ in_flight = 0
    /\ response = <<>>
    /\ analysis_result = <<>>
    /\ errors = <<>>
    /\ reruns = 0
    /\ uploaded_file = NoFile
    /\ extracted_text = <<>>
    /\ download = <<>>
    /\ preview = <<>>
    /\ api_key_input = <<>>
    /\ analysis_text = <<>>
    /\ formatted = <<>>
    /\ content_lines = <<>>
    /\ html_content = <<>>
    /\ text = <<>>
    /\ highlighted = <<>>
    /\ version \in Versions
    /\ returned = <<>>

CheckPythonVersion ==
    /\ pc = "check_python_version"
    /\ returned' = <<check_python_version(version)>>
    /\ pc' = "done"
    /\ UNCHANGED <<version, analysis_text, formatted, content_lines, html_content, text,
                   highlighted, session_state, calls, analysis_vars, main_vars,
                   api_key_input>>

NextSetup == CheckPythonVersion

SpecSetup == InitSetup /\ [][NextSetup]_vars

\* the version is 3.8 or a later one
AtLeast38(v) == v[1] > 3 \/ (v[1] = 3 /\ v[2] >= 8)

(***************************************************************************)
(* C30                                                                     *)
(***************************************************************************)
\* C30: check_python_version accepts every version of the interpreter that
\* is 3.8 or later, any version with a major number above 3 included, and
\* rejects every earlier version.
C30_AcceptsFrom38 ==
    returned # <<>> => (returned[1] <=> AtLeast38(version))

====
